---- MODULE Spec2Model ----
(***************************************************************************)
(* The jobqueue server of wr (jobqueue/server.go): the request dispatcher  *)
(* handleRequest, the scheduler-group coordinator (ready callback and      *)
(* decrementGroupCount) and the queue primitive they drive.                *)
(*                                                                         *)
(* A job object (the *Job / *queue.Item the server holds by pointer) is    *)
(* named by its key; a key is not given to a new job while a goroutine     *)
(* still points to the old one. Every queue operation is atomic (the queue *)
(* takes its own lock); each j* handler is one action; reserve, the ready  *)
(* callback and the asynchronous decrement of jarchive are goroutines with *)
(* their own position.                                                     *)
(*                                                                         *)
(* The specifications share the actions: Spec (one job, every client, the  *)
(* requests the server accepts), SpecBad (one job, the requests that are   *)
(* turned down included), SpecJobs (several jobs, one client), SpecGate    *)
(* (the token check and the up/drain gate in front of every handler),      *)
(* SpecArchive (one job archived again and again, with the fairness of the *)
(* goroutine that jarchive starts), SpecPoll (a reserve that polls until   *)
(* its timeout), SpecRpl (the RepGroup lookup under add, jarchive, jdel and*)
(* jmod), SpecLocks (two handler goroutines that run lock by lock),        *)
(* SpecStop (Serve's receiver goroutine, Block and Stop), SpecLimit (jobs  *)
(* of a limit group), SpecPause (jmod, its Pause and Resume, and a polling *)
(* reserve), SpecClosed (reserve while the queue is destroyed), SpecKill   *)
(* (jkill, jstart and jtouch), SpecSnapshot (the State of a job's          *)
(* snapshot), SpecDrain (drain and polling reserves) and SpecStops (Stop   *)
(* called by several callers).                                             *)
(***************************************************************************)
EXTENDS Integers, Sequences, FiniteSets, TLC

\* ------------------------------------------------------------------ bounds
MaxKeys == 2
MaxClients == 2
MaxReqs == 2
MaxCallbacks == 1
MaxRetries == 1
MaxPending == 1

Keys == 1..MaxKeys
\* a ClientID; 0 is the all-zero UUID
Clients == 1..MaxClients
NoClient == 0
\* scheduler.Requirements values; 0 is the nil *Requirements
Reqs == 1..MaxReqs
NoReq == 0
\* scheduler group tags; 0 is the empty string
Groups == 1..MaxReqs
NoGroup == 0
Callbacks == 1..MaxCallbacks
RepGroups == {1}

\* ------------------------------------------------------- program constants
ErrInternalError == "internal error"
ErrUnknownCommand == "unknown command"
ErrBadRequest == "bad request (missing arguments?)"
ErrBadJob == "bad job (not in queue or correct sub-queue)"
ErrMustReserve == "you must Reserve() a Job before passing it to other methods"
ErrDBError == "failed to use database"
ErrQueueClosed == "queue closed"
ErrNothingReady == "nothing ready"
ErrClosedStop == "queues closed due to manual Stop()"
ErrPermissionDenied == "bad token: permission denied"
\* s.rc, the runner command: runners are spawned when it is not empty
rc == "runner --queue %s --group %s"

VARIABLES
    q,              \* the queue's sub-queues: delay, ready, run, bury, dependent
    jobs,           \* key -> the Job (and its Item) of that key
    rpl,            \* s.rpl.lookup: RepGroup -> set of keys
    sgroupcounts,   \* s.sgroupcounts: a map, group -> count
    sgtr,           \* s.sgtr: a map, group -> Requirements
    sched,          \* the scheduler: group -> the last Schedule call for it
    limiter,        \* s.limiter: the count of the limit group
    db,             \* the DB's live and complete buckets (sets of keys)
    rsv,            \* client -> its reserve request in flight
    cbs,            \* the ready callback goroutines
    pendingDec,     \* group -> decrementGroupCount goroutines of jarchive not yet run
    reply,          \* the last serverResponse sent
    stay,           \* key -> reserve replies that carried it in its current stay in run
    sstate,         \* s.up, s.drain and whether s.q is there (guarded by ssmutex)
    th,             \* client -> the handler goroutine that works through its locks
    srv             \* Serve's receiver goroutine, its channels, Block and Stop

vars == <<q, jobs, rpl, sgroupcounts, sgtr, sched, limiter, db, rsv, cbs,
          pendingDec, reply, stay, sstate, th, srv>>

\* --------------------------------------------------------------- the Job
\* the values of Job.State that the handlers store
JobStateNew == "new"
JobStateRunning == "running"
JobStateComplete == "complete"
JobStateBuried == "buried"
JobStateReady == "ready"

NoJob == [Key |-> 0, Req |-> NoReq, RepGroup |-> 0, Retries |-> 0,
          UntilBuried |-> 0, schedulerGroup |-> NoGroup, ReservedBy |-> NoClient,
          Exited |-> FALSE, Exitcode |-> 0, StartTime |-> 0, EndTime |-> 0,
          incremented |-> FALSE, State |-> "", killCalled |-> FALSE,
          Lost |-> FALSE]

\* ------------------------------------------------- the external scheduler
\* Sched.Place(req): the group tag of a requirement, stable for equal reqs
Place(req) == req

\* the limit group suffix of a scheduler group: the last group carries one
LimitedGroup == 2
LimitOfGroup == 1

\* ------------------------------------------------------ the queue primitive
SubQueues == {"delay", "ready", "run", "bury", "dependent"}

QAll(qq) == qq.delay \cup qq.ready \cup qq.run \cup qq.bury \cup qq.dependent

\* the sub-queue of an item in the queue qq; "removed" for an item in none
SubQueueOf(qq, j) ==
    IF j \in qq.run THEN "run"
    ELSE IF j \in qq.ready THEN "ready"
    ELSE IF j \in qq.delay THEN "delay"
    ELSE IF j \in qq.bury THEN "bury"
    ELSE IF j \in qq.dependent THEN "dependent"
    ELSE "removed"

\* item.Stats().State
ItemState(j) == SubQueueOf(q, j)

\* a queue that knows no key
QGetNone(key) == {}

\* q.Get(key): the items with that key (none, or one)
QGet(key) == {j \in QAll(q) : j = key}

\* moving an item from one sub-queue to another
QMove(qq, j, from, to) == [qq EXCEPT ![from] = @ \ {j}, ![to] = @ \cup {j}]

\* q.Add: a new item enters dest
QAdd(qq, j, dest) == [qq EXCEPT ![dest] = @ \cup {j}]

\* q.Reserve(group...): ready -> run
QReserve(qq, j) == QMove(qq, j, "ready", "run")

\* q.Release: run -> delay
QRelease(qq, j) == QMove(qq, j, "run", "delay")

\* q.Bury: run -> bury
QBury(qq, j) == QMove(qq, j, "run", "bury")

\* a Kick that puts the item in ready and leaves it in bury
QKickCopy(qq, j) == QAdd(qq, j, "ready")

\* q.Kick: bury -> ready
QKick(qq, j) == QMove(qq, j, "bury", "ready")

\* a Remove that leaves the item where it is
QRemoveKeep(qq, j) == qq

\* q.Remove: out of whatever sub-queue the item is in
QRemove(qq, j) == [s \in SubQueues |-> qq[s] \ {j}]

\* the items q.Reserve may return: every ready item, or with a group those
\* whose reserve group (the job's scheduler group) is that group. Priority is
\* not modelled: any eligible item may be the first.
Eligible(group) ==
    IF group = <<>> THEN q.ready
    ELSE {j \in q.ready : jobs[j].schedulerGroup = group[1]}

\* ------------------------------------------------------------- Go maps
MapGet(m, k, zero) == IF k \in DOMAIN m THEN m[k] ELSE zero
MapSet(m, k, v) == [x \in DOMAIN m \cup {k} |-> IF x = k THEN v ELSE m[x]]
MapDelete(m, k) ==
    IF DOMAIN m \ {k} = {} THEN <<>> ELSE [x \in DOMAIN m \ {k} |-> m[x]]

\* ----------------------------------------------------------------- Init
\* a handler goroutine that is not at work: op is the method it serves, prog
\* the steps it still has to make, held the locks it holds (in the order it
\* took them), seen what a getbr has read, n the writes of rpl it has made
IdleTh == [op |-> "", prog |-> <<>>, held |-> <<>>, seen |-> {}, n |-> 0]

\* Serve has returned: the receiver goroutine is in its loop, the channels
\* stop (capacity 1), sigs (capacity 2) and done (capacity 1) are empty, the
\* socket is open, nobody has called Block or Stop.
\* taken: what the select of the receiver took; sent: the sends on done;
\* closes: the calls of db.close
InitSrv ==
    [pc |-> "loop", stop |-> 0, sigs |-> <<>>, done |-> <<>>, sock |-> TRUE,
     closes |-> 0, blocking |-> FALSE, block |-> "none", blockErr |-> "",
     stopper |-> [c \in Clients |-> "none"],
     stopErr |-> [c \in Clients |-> ""], atStop |-> FALSE, taken |-> "",
     sent |-> 0]
IdleRsv == [pc |-> "idle", group |-> NoGroup, item |-> 0]
IdleCb == [pc |-> "idle", data |-> <<>>, groups |-> [g \in Groups |-> 0],
           cur |-> <<>>]
NoReply == [method |-> "", err |-> "", n |-> 0, existed |-> 0, job |-> 0,
            KillCalled |-> FALSE, touched |-> FALSE, State |-> ""]

Init ==
    /\ q = [s \in SubQueues |-> {}]
    /\ jobs = [j \in Keys |-> NoJob]
    /\ rpl = [r \in RepGroups |-> {}]
    /\ sgroupcounts = <<>>
    /\ sgtr = <<>>
    /\ sched = <<>>
    /\ limiter = 0
    /\ db = [live |-> {}, complete |-> {}]
    /\ rsv = [c \in Clients |-> IdleRsv]
    /\ cbs = [cb \in Callbacks |-> IdleCb]
    /\ pendingDec = [g \in Groups |-> 0]
    /\ reply = NoReply
    /\ stay = [j \in Keys |-> 0]
    /\ sstate = [up |-> TRUE, drain |-> FALSE, q |-> TRUE, killRunners |-> FALSE]
    /\ th = [c \in Clients |-> IdleTh]
    /\ srv = InitSrv

\* ------------------------------------------ the scheduler-group coordinator
RECURSIVE SortedSeq(_)
SortedSeq(S) ==
    IF S = {} THEN <<>>
    ELSE LET m == CHOOSE x \in S : \A y \in S : x <= y
         IN <<m>> \o SortedSeq(S \ {m})

\* the slice of all the ready jobs that the queue hands to the callback
AllItemData(qq, jj) ==
    LET ss == SortedSeq(qq.ready)
    IN [i \in 1..Len(ss) |-> <<ss[i], jj[ss[i]].Req>>]

FreeCallbacks == {cb \in Callbacks : cbs[cb].pc = "idle"}

\* the jobs that a goroutine still holds a pointer to
Referenced ==
    {rsv[c].item : c \in Clients} \cup
    UNION {{cbs[cb].data[i][1] : i \in 1..Len(cbs[cb].data)} : cb \in Callbacks}

\* the queue starts the ready callback (in a goroutine) after items entered
\* ready: cbsNew is cbs with one more callback at its first statement
ReadyAddedCallback(qq, jj) ==
    LET cb == CHOOSE x \in FreeCallbacks : \A y \in FreeCallbacks : x <= y
    IN [cbs EXCEPT ![cb] = [pc |-> "place", data |-> AllItemData(qq, jj),
                            groups |-> [g \in Groups |-> 0], cur |-> <<>>]]

\* after the loop over allitemdata: the loop over groups, if runners are spawned
AfterPlace(rest, groups) ==
    IF rest # <<>> THEN "place"
    ELSE IF rc # "" /\ \E g \in Groups : groups[g] > 0 THEN "sched"
    ELSE "idle"

\* one iteration of the loop over allitemdata: Place, count, and the test of
\* sgtr that is made before sgcmutex is taken
CbPlace(cb) ==
    /\ reply = NoReply
    /\ cbs[cb].pc = "place"
    /\ LET j == cbs[cb].data[1][1]
           req == cbs[cb].data[1][2]
           group == Place(req)
           rest == Tail(cbs[cb].data)
           groups == [cbs[cb].groups EXCEPT ![group] = @ + 1]
       IN /\ jobs' = IF jobs[j].Key # 0
                     THEN [jobs EXCEPT ![j].schedulerGroup = group]
                     ELSE jobs
          /\ cbs' = [cbs EXCEPT ![cb] =
                 IF group \notin DOMAIN sgtr
                 THEN [pc |-> "setreq", data |-> rest, groups |-> groups,
                       cur |-> <<group, req>>]
                 ELSE [pc |-> AfterPlace(rest, groups), data |-> rest,
                       groups |-> IF AfterPlace(rest, groups) = "idle"
                                  THEN IdleCb.groups ELSE groups,
                       cur |-> <<>>]]
    /\ UNCHANGED <<q, rpl, sgroupcounts, sgtr, sched, limiter, db, rsv,
                   pendingDec, reply, stay>>
    /\ UNCHANGED <<sstate, th, srv>>

\* s.sgtr[job.schedulerGroup] = req, under sgcmutex
CbSetReq(cb) ==
    /\ reply = NoReply
    /\ cbs[cb].pc = "setreq"
    /\ sgtr' = MapSet(sgtr, cbs[cb].cur[1], cbs[cb].cur[2])
    /\ LET next == AfterPlace(cbs[cb].data, cbs[cb].groups)
       IN cbs' = [cbs EXCEPT ![cb].pc = next, ![cb].cur = <<>>,
                             ![cb].groups = IF next = "idle" THEN IdleCb.groups ELSE @]
    /\ UNCHANGED <<q, jobs, rpl, sgroupcounts, sched, limiter, db, rsv,
                   pendingDec, reply, stay>>
    /\ UNCHANGED <<sstate, th, srv>>

\* one iteration of the loop over groups: the count is set and Schedule is
\* called, under sgcmutex
CbSchedule(cb) ==
    /\ reply = NoReply
    /\ cbs[cb].pc = "sched"
    /\ \E group \in Groups :
        /\ cbs[cb].groups[group] > 0
        /\ LET count == cbs[cb].groups[group]
               left == [cbs[cb].groups EXCEPT ![group] = 0]
           IN /\ sgroupcounts' = MapSet(sgroupcounts, group, count)
              /\ sched' = MapSet(sched, group,
                     [req |-> MapGet(sgtr, group, NoReq), count |-> count])
              /\ cbs' = [cbs EXCEPT ![cb].groups = left,
                     ![cb].pc = IF \E g \in Groups : left[g] > 0
                                THEN "sched" ELSE "idle"]
    /\ UNCHANGED <<q, jobs, rpl, sgtr, limiter, db, rsv, pendingDec, reply, stay>>
    /\ UNCHANGED <<sstate, th, srv>>

\* decrementGroupCount: the whole body runs under sgcmutex
DecrementGroupCount(group) ==
    LET count == MapGet(sgroupcounts, group, 0) - 1
    IN IF count <= 0
       THEN /\ sgroupcounts' = MapDelete(sgroupcounts, group)
            /\ sgtr' = MapDelete(sgtr, group)
            /\ sched' = sched
       ELSE /\ sgroupcounts' = MapSet(sgroupcounts, group, count)
            /\ sgtr' = sgtr
            /\ sched' = MapSet(sched, group,
                   [req |-> MapGet(sgtr, group, NoReq), count |-> count])

\* the goroutine jarchive starts to decrement the group count
AsyncDecrement(group) ==
    /\ reply = NoReply
    /\ pendingDec[group] > 0
    /\ pendingDec' = [pendingDec EXCEPT ![group] = @ - 1]
    /\ DecrementGroupCount(group)
    /\ UNCHANGED <<q, jobs, rpl, limiter, db, rsv, cbs, reply, stay>>
    /\ UNCHANGED <<sstate, th, srv>>

\* --------------------------------------------------------- handleRequest
\* a serverResponse: Err, Added or the like, Existed (0 but for "add"), Job,
\* KillCalled (false but for "jtouch"), the State of the job's snapshot (of
\* "getbc"); touched notes that the handler has called q.Touch, which
\* re-arms the TTR of the item
Reply(method, err, n, job) ==
    [method |-> method, err |-> err, n |-> n, existed |-> 0, job |-> job,
     KillCalled |-> FALSE, touched |-> FALSE, State |-> ""]

\* a write of new jobs that is put off until after the reply
storeNewJobsLazy(d, key) == d

\* db.storeNewJobs: the new job gets its record in the live bucket
storeNewJobs(d, key) == [d EXCEPT !.live = @ \cup {key}]

\* the Job createJobs makes of a request's job
NewJob(key, req, rg, retries) ==
    [NoJob EXCEPT !.Key = key, !.Req = req, !.RepGroup = rg,
                  !.Retries = retries, !.UntilBuried = retries + 1,
                  !.Exitcode = 0, !.State = JobStateNew]

\* the well-formed "add" requests over the keys KS and the requirements RS:
\* one job per request.
\* dest: ready, or dependent for a job with dependencies
AddRequests(KS, RS) ==
    [kind : {"ok"}, key : KS, req : RS, rg : RepGroups,
     retries : {MaxRetries}, dest : {"ready", "dependent"},
     ignoreComplete : BOOLEAN]

\* the "add" requests that fail: cr.Env or cr.Jobs is nil ("noenv"), or a DB
\* write fails ("dberr")
BadAddRequests ==
    {[kind |-> k, key |-> 1, req |-> 1, rg |-> 1, retries |-> 0,
      dest |-> "ready", ignoreComplete |-> FALSE] : k \in {"noenv", "dberr"}}

\* "add"
Add(cr) ==
    /\ reply = NoReply
    /\ IF cr.kind = "noenv" THEN
            /\ reply' = Reply("add", ErrBadRequest, 0, 0)
            /\ UNCHANGED <<q, jobs, rpl, db, cbs>>
       ELSE IF cr.kind = "dberr" THEN
            /\ reply' = Reply("add", ErrDBError, 0, 0)
            /\ UNCHANGED <<q, jobs, rpl, db, cbs>>
       ELSE IF QGet(cr.key) # {} \/ (cr.ignoreComplete /\ cr.key \in db.complete) THEN
            \* a duplicate, or already complete: counted in Existed
            /\ reply' = [Reply("add", "", 0, 0) EXCEPT !.existed = 1]
            /\ UNCHANGED <<q, jobs, rpl, db, cbs>>
       ELSE
            /\ cr.key \notin Referenced
            /\ cr.dest = "ready" => FreeCallbacks # {}
            /\ LET j == cr.key
                   jj == [jobs EXCEPT ![j] = NewJob(cr.key, cr.req, cr.rg, cr.retries)]
                   qq == QAdd(q, j, cr.dest)
               IN /\ db' = storeNewJobs(db, cr.key)
                  /\ jobs' = jj
                  /\ q' = qq
                  /\ rpl' = [rpl EXCEPT ![cr.rg] = @ \cup {cr.key}]
                  /\ cbs' = IF cr.dest = "ready" THEN ReadyAddedCallback(qq, jj) ELSE cbs
            /\ reply' = Reply("add", "", 1, 0)
    /\ UNCHANGED <<sgroupcounts, sgtr, sched, limiter, rsv, pendingDec, stay>>
    /\ UNCHANGED <<sstate, th, srv>>

\* schedGroupToLimitGroups: the limit groups a scheduler group is suffixed with
schedGroupToLimitGroups(group) == IF group = LimitedGroup THEN {"L"} ELSE {}

\* a reserveWithLimits whose queue hands out the first ready item without
\* moving it to run
reserveWithLimitsPeek(group, item) ==
    /\ IF Eligible(group) = {} THEN item = 0 ELSE item \in Eligible(group)
    /\ stay' = IF item # 0 THEN [stay EXCEPT ![item] = @ + 1] ELSE stay
    /\ UNCHANGED <<q, limiter, jobs>>

\* reserveWithLimits(group...): group is <<>> or <<g>>; item is the item the
\* queue's Reserve returns, 0 for nil (ErrNothingReady)
reserveWithLimits(group, item) ==
    LET limitGroups == IF Len(group) = 1 THEN schedGroupToLimitGroups(group[1]) ELSE {}
    IN IF limitGroups # {} /\ limiter >= LimitOfGroup
       THEN \* s.limiter.Increment failed
            /\ item = 0
            /\ UNCHANGED <<q, limiter, jobs, stay>>
       ELSE /\ IF Eligible(group) = {} THEN item = 0 ELSE item \in Eligible(group)
            /\ q' = IF item # 0 THEN QReserve(q, item) ELSE q
            /\ stay' = IF item # 0 THEN [stay EXCEPT ![item] = @ + 1] ELSE stay
            \* Increment, then Decrement when nothing was reserved
            /\ limiter' = IF limitGroups # {} /\ item # 0 THEN limiter + 1 ELSE limiter
            \* noteIncrementedLimitGroups
            /\ jobs' = IF limitGroups # {} /\ item # 0
                       THEN [jobs EXCEPT ![item].incremented = TRUE]
                       ELSE jobs

\* a first reserve that ignores sgroupcounts
skipNever(group, first) == FALSE

\* the skip flag of "reserve": the client named a scheduler group, this is
\* its first reserve, the server deploys runners, and no more clients are
\* wanted for the group (its count is missing or 0)
skip(group, first) ==
    /\ group # NoGroup
    /\ first
    /\ rc # ""
    /\ MapGet(sgroupcounts, group, 0) = 0

\* "reserve", up to the first reserveWithLimits. group: cr.SchedulerGroup
\* (NoGroup for ""); first: cr.FirstReserve; zeroID: cr.ClientID is all zero
ReserveFirst(c, group, first, zeroID) ==
    /\ reply = NoReply
    /\ rsv[c].pc = "idle"
    /\ IF zeroID THEN
            /\ reply' = Reply("reserve", ErrBadRequest, 0, 0)
            /\ UNCHANGED <<q, jobs, limiter, rsv, stay>>
       ELSE IF sstate.drain THEN
            \* nothing is returned, as if there were no jobs in the queue
            /\ reply' = Reply("reserve", "", 0, 0)
            /\ UNCHANGED <<q, jobs, limiter, rsv, stay>>
       ELSE IF skip(group, first) THEN
            \* act as if nothing was ready
            /\ reply' = Reply("reserve", "", 0, 0)
            /\ UNCHANGED <<q, jobs, limiter, rsv, stay>>
       ELSE \E item \in Keys \cup {0} :
            /\ reserveWithLimits(IF group # NoGroup THEN <<group>> ELSE <<>>, item)
            /\ rsv' = [rsv EXCEPT ![c] =
                   IF item # 0 THEN [pc |-> "got", group |-> NoGroup, item |-> item]
                   ELSE [pc |-> "poll", group |-> group, item |-> 0]]
            /\ reply' = reply
    /\ UNCHANGED <<rpl, sgroupcounts, sgtr, sched, db, cbs, pendingDec>>
    /\ UNCHANGED <<sstate, th, srv>>

\* a tick of the polling goroutine on which reserveWithLimits returns an item
\* (on ErrNothingReady it continues, and nothing changes)
ReservePoll(c) ==
    /\ reply = NoReply
    /\ rsv[c].pc = "poll"
    /\ \E item \in Keys :
        /\ reserveWithLimits(<<rsv[c].group>>, item)
        /\ rsv' = [rsv EXCEPT ![c] = [pc |-> "got", group |-> NoGroup, item |-> item]]
    /\ UNCHANGED <<rpl, sgroupcounts, sgtr, sched, db, cbs, pendingDec, reply>>
    /\ UNCHANGED <<sstate, th, srv>>

\* a timeout that is reported to the client as an error
ReserveTimeoutError(c) ==
    /\ reply = NoReply
    /\ rsv[c].pc = "poll"
    /\ rsv' = [rsv EXCEPT ![c] = IdleRsv]
    /\ reply' = Reply("reserve", ErrInternalError, 0, 0)
    /\ UNCHANGED <<q, jobs, rpl, sgroupcounts, sgtr, sched, limiter, db, cbs,
                   pendingDec, stay>>
    /\ UNCHANGED <<sstate, th, srv>>

\* the client's timeout stops the polling goroutine: no job, no error
ReserveTimeout(c) ==
    /\ reply = NoReply
    /\ rsv[c].pc = "poll"
    /\ rsv' = [rsv EXCEPT ![c] = IdleRsv]
    /\ reply' = Reply("reserve", "", 0, 0)
    /\ UNCHANGED <<q, jobs, rpl, sgroupcounts, sgtr, sched, limiter, db, cbs,
                   pendingDec, stay>>
    /\ UNCHANGED <<sstate, th, srv>>

\* the end of "reserve" for an item: the job is cleaned up, ReservedBy is
\* set, and a copy of the job is the reply
ReserveFinish(c) ==
    /\ reply = NoReply
    /\ rsv[c].pc = "got"
    /\ LET j == rsv[c].item
       IN /\ jobs' = IF jobs[j].Key # 0
                     THEN [jobs EXCEPT ![j].ReservedBy = c, ![j].Exited = FALSE,
                                       ![j].StartTime = 0, ![j].EndTime = 0,
                                       ![j].Exitcode = -1]
                     ELSE jobs
          /\ reply' = Reply("reserve", "", 0, j)
    /\ rsv' = [rsv EXCEPT ![c] = IdleRsv]
    /\ UNCHANGED <<q, rpl, sgroupcounts, sgtr, sched, limiter, db, cbs,
                   pendingDec, stay>>
    /\ UNCHANGED <<sstate, th, srv>>

\* a getij that does not compare cr.ClientID with ReservedBy
getijAnyClient(c, key) ==
    IF key = 0 THEN ErrBadRequest
    ELSE IF QGet(key) = {} \/ (\E j \in QGet(key) : ItemState(j) # "run") THEN ErrBadJob
    ELSE ""

\* getij: the error of the checks the j* methods share. key: the key of
\* cr.Job, 0 when the request has no Job; c: cr.ClientID
getij(c, key) ==
    IF key = 0 THEN ErrBadRequest
    ELSE IF QGet(key) = {} \/ (\E j \in QGet(key) : ItemState(j) # "run") THEN ErrBadJob
    ELSE IF \E j \in QGet(key) : jobs[j].ReservedBy # c THEN ErrMustReserve
    ELSE ""

\* the item of a key that is in the queue
ItemOf(key) == CHOOSE j \in QGet(key) : TRUE

\* cr.JobEndState: nil, or the command exited with code 0 or 1
EndStates == {"none", "exit0", "exit1"}

\* job.updateAfterExit: the exit observations are merged into the job and the
\* limit groups it incremented are given back
updateAfterExit(job, es) ==
    IF es = "none" THEN [job EXCEPT !.incremented = FALSE, !.killCalled = FALSE]
    ELSE [job EXCEPT !.incremented = FALSE, !.killCalled = FALSE, !.Exited = TRUE,
                     !.Exitcode = IF es = "exit0" THEN 0 ELSE 1, !.EndTime = 1]

limiterAfterExit(job) == IF job.incremented THEN limiter - 1 ELSE limiter

\* "jstart". argsOk: cr.Job.Pid > 0 and cr.Job.Host is not empty
JStart(c, key, argsOk) ==
    /\ reply = NoReply
    /\ IF getij(c, key) # "" THEN
            /\ reply' = Reply("jstart", getij(c, key), 0, 0)
            /\ jobs' = jobs
       ELSE IF ~argsOk THEN
            /\ reply' = Reply("jstart", ErrBadRequest, 0, 0)
            /\ jobs' = jobs
       ELSE /\ jobs' = [jobs EXCEPT ![ItemOf(key)].StartTime = 1,
                                    ![ItemOf(key)].EndTime = 0,
                                    ![ItemOf(key)].killCalled = FALSE,
                                    ![ItemOf(key)].Lost = FALSE,
                                    ![ItemOf(key)].State = JobStateRunning]
            /\ reply' = Reply("jstart", "", 0, 0)
    /\ UNCHANGED <<q, rpl, sgroupcounts, sgtr, sched, limiter, db, rsv, cbs,
                   pendingDec, stay>>
    /\ UNCHANGED <<sstate, th, srv>>

\* "jtouch": when kill has been called for the job, or the server has been
\* set to kill all runners, only KillCalled is replied; else the TTR of the
\* item is re-armed, and a job that was Lost is no longer Lost
JTouch(c, key) ==
    /\ reply = NoReply
    /\ IF getij(c, key) # "" THEN
            /\ reply' = Reply("jtouch", getij(c, key), 0, 0)
            /\ jobs' = jobs
       ELSE IF jobs[ItemOf(key)].killCalled \/ sstate.killRunners THEN
            /\ reply' = [Reply("jtouch", "", 0, 0) EXCEPT !.KillCalled = TRUE]
            /\ jobs' = jobs
       ELSE /\ reply' = [Reply("jtouch", "", 0, 0) EXCEPT !.touched = TRUE]
            /\ jobs' = IF jobs[ItemOf(key)].Lost
                       THEN [jobs EXCEPT ![ItemOf(key)].Lost = FALSE,
                                         ![ItemOf(key)].EndTime = 0]
                       ELSE jobs
    /\ UNCHANGED <<q, rpl, sgroupcounts, sgtr, sched, limiter, db, rsv,
                   cbs, pendingDec, stay>>
    /\ UNCHANGED <<sstate, th, srv>>

\* "jkill" of one key: killJob sets killCalled on the job when it is in run;
\* the client does not have to be the one who reserved it. key 0: cr.Keys
\* is nil
JKill(key) ==
    /\ reply = NoReply
    /\ IF key = 0 THEN
            /\ reply' = Reply("jkill", ErrBadRequest, 0, 0)
            /\ jobs' = jobs
       ELSE IF key \in q.run THEN
            /\ reply' = [Reply("jkill", "", 0, 0) EXCEPT !.existed = 1]
            /\ jobs' = [jobs EXCEPT ![key].killCalled = TRUE]
       ELSE /\ reply' = Reply("jkill", "", 0, 0)
            /\ jobs' = jobs
    /\ UNCHANGED <<q, rpl, sgroupcounts, sgtr, sched, limiter, db, rsv,
                   cbs, pendingDec, stay>>
    /\ UNCHANGED <<sstate, th, srv>>

\* the map itemsStateToJobState; "" for an item state that is no key of it
itemsStateToJobState(itemState) ==
    CASE itemState = "delay" -> "delayed"
      [] itemState = "ready" -> "ready"
      [] itemState = "run" -> "reserved"
      [] itemState = "bury" -> "buried"
      [] itemState = "dependent" -> "dependent"
      [] OTHER -> ""

itemStateToJobState(itemState, lost) ==
    LET state == itemsStateToJobState(itemState)
    IN IF state = "" THEN "unknown"
       ELSE IF state = "reserved" /\ lost THEN "lost"
       ELSE state

\* itemToJob: the copy of the job of an item that is made for the client;
\* itemState: the State of item.Stats()
itemToJob(itemState, sjob) ==
    LET state == itemStateToJobState(itemState, sjob.Lost)
    IN [sjob EXCEPT !.State = IF state = "reserved" /\ sjob.StartTime # 0
                              THEN "running" ELSE state]

\* the itemToJob of the older handler: State is set from the switch over the
\* item's state; "running" is assigned to the local variable state after the
\* copy has been made, and does not reach the copy
itemToJobOlder(itemState, sjob) ==
    [sjob EXCEPT !.State = CASE itemState = "delay" -> "delayed"
                             [] itemState = "ready" -> "ready"
                             [] itemState = "run" -> "reserved"
                             [] itemState = "bury" -> "buried"
                             [] OTHER -> "unknown"]

\* "getbc" of one key: the snapshot of the job with that key, when it is in
\* the queue. older: the request is handled by the older handler
GetBc(key, older) ==
    /\ reply = NoReply
    /\ reply' = IF QGet(key) = {} THEN Reply("getbc", "", 0, 0)
                ELSE [Reply("getbc", "", 1, key) EXCEPT !.State =
                        IF older
                        THEN itemToJobOlder(ItemState(ItemOf(key)), jobs[ItemOf(key)]).State
                        ELSE itemToJob(ItemState(ItemOf(key)), jobs[ItemOf(key)]).State]
    /\ UNCHANGED <<q, jobs, rpl, sgroupcounts, sgtr, sched, limiter, db, rsv,
                   cbs, pendingDec, stay, sstate, th, srv>>

\* the server is set to kill all runners
KillRunners ==
    /\ reply = NoReply
    /\ ~sstate.killRunners
    /\ sstate' = [sstate EXCEPT !.killRunners = TRUE]
    /\ UNCHANGED <<q, jobs, rpl, sgroupcounts, sgtr, sched, limiter, db, rsv,
                   cbs, pendingDec, reply, stay, th, srv>>

\* "jarchive". dbOk: archiveJob succeeds
JArchive(c, key, es, dbOk) ==
    /\ reply = NoReply
    /\ IF getij(c, key) # "" THEN
            /\ reply' = Reply("jarchive", getij(c, key), 0, 0)
            /\ UNCHANGED <<q, jobs, rpl, limiter, db, pendingDec, stay>>
       ELSE LET j == ItemOf(key)
                job == updateAfterExit(jobs[j], es)
            IN /\ limiter' = limiterAfterExit(jobs[j])
               /\ IF ~job.Exited \/ job.Exitcode # 0 \/ job.StartTime = 0
                     \/ job.EndTime = 0 THEN
                       /\ reply' = Reply("jarchive", ErrBadRequest, 0, 0)
                       /\ jobs' = [jobs EXCEPT ![j] = job]
                       /\ UNCHANGED <<q, rpl, db, pendingDec, stay>>
                  ELSE IF ~dbOk THEN
                       \* job.State was set before archiveJob was called
                       /\ reply' = Reply("jarchive", ErrDBError, 0, 0)
                       /\ jobs' = [jobs EXCEPT ![j] =
                                      [job EXCEPT !.State = JobStateComplete]]
                       /\ UNCHANGED <<q, rpl, db, pendingDec, stay>>
                  ELSE /\ job.schedulerGroup # NoGroup
                            => pendingDec[job.schedulerGroup] < MaxPending
                       /\ db' = [live |-> db.live \ {key},
                                 complete |-> db.complete \cup {key}]
                       /\ q' = QRemove(q, j)
                       /\ rpl' = [rpl EXCEPT ![job.RepGroup] = @ \ {key}]
                       \* go decrementGroupCount: for the empty group it finds
                       \* no count and deletes nothing
                       /\ pendingDec' = IF job.schedulerGroup = NoGroup THEN pendingDec
                                        ELSE [pendingDec EXCEPT ![job.schedulerGroup] = @ + 1]
                       /\ jobs' = [jobs EXCEPT ![j] = NoJob]
                       /\ stay' = [stay EXCEPT ![j] = 0]
                       /\ reply' = Reply("jarchive", "", 0, 0)
    /\ UNCHANGED <<sgroupcounts, sgtr, sched, rsv, cbs>>
    /\ UNCHANGED <<sstate, th, srv>>

\* a releaseJob for which every release uses up a retry
releaseJobAlwaysCounts(j, es) ==
    LET merged == updateAfterExit(jobs[j], es)
        job == [merged EXCEPT !.UntilBuried = @ - 1]
    IN /\ jobs' = [jobs EXCEPT ![j] = job]
       /\ limiter' = limiterAfterExit(jobs[j])
       /\ q' = IF job.UntilBuried <= 0 THEN QBury(q, j) ELSE QRelease(q, j)
       /\ stay' = [stay EXCEPT ![j] = 0]

\* releaseJob: a failed exit uses up a retry; out of retries the job is
\* buried, else it is released to the delay sub-queue
releaseJob(j, es) ==
    LET merged == updateAfterExit(jobs[j], es)
        job == IF merged.Exited /\ merged.Exitcode # 0
               THEN [merged EXCEPT !.UntilBuried = @ - 1] ELSE merged
    IN /\ jobs' = [jobs EXCEPT ![j] = job]
       /\ limiter' = limiterAfterExit(jobs[j])
       /\ q' = IF job.UntilBuried <= 0 THEN QBury(q, j) ELSE QRelease(q, j)
       /\ stay' = [stay EXCEPT ![j] = 0]

\* "jrelease"
JRelease(c, key, es) ==
    /\ reply = NoReply
    /\ reply' = Reply("jrelease", getij(c, key), 0, 0)
    /\ IF getij(c, key) # "" THEN UNCHANGED <<q, jobs, limiter, stay>>
       ELSE releaseJob(ItemOf(key), es)
    /\ UNCHANGED <<rpl, sgroupcounts, sgtr, sched, db, rsv, cbs, pendingDec>>
    /\ UNCHANGED <<sstate, th, srv>>

\* "jbury"
JBury(c, key, es) ==
    /\ reply = NoReply
    /\ reply' = Reply("jbury", getij(c, key), 0, 0)
    /\ IF getij(c, key) # "" THEN
            UNCHANGED <<q, jobs, limiter, stay, sgroupcounts, sgtr, sched>>
       ELSE LET j == ItemOf(key)
            IN /\ jobs' = [jobs EXCEPT ![j] =
                              [updateAfterExit(jobs[j], es) EXCEPT !.State = JobStateBuried]]
               /\ limiter' = limiterAfterExit(jobs[j])
               /\ q' = QBury(q, j)
               /\ stay' = [stay EXCEPT ![j] = 0]
               /\ DecrementGroupCount(jobs[j].schedulerGroup)
    /\ UNCHANGED <<rpl, db, rsv, cbs, pendingDec>>
    /\ UNCHANGED <<sstate, th, srv>>

\* a jkick that leaves UntilBuried as it is
JKickKeepsCount(key) ==
    /\ reply = NoReply
    /\ IF key = 0 THEN
            /\ reply' = Reply("jkick", ErrBadRequest, 0, 0)
            /\ UNCHANGED <<q, jobs, cbs>>
       ELSE IF QGet(key) = {} \/ ItemState(ItemOf(key)) # "bury" THEN
            /\ reply' = Reply("jkick", "", 0, 0)
            /\ UNCHANGED <<q, jobs, cbs>>
       ELSE LET j == ItemOf(key)
                qq == QKick(q, j)
                jj == [jobs EXCEPT ![j].State = JobStateReady]
            IN /\ FreeCallbacks # {}
               /\ q' = qq
               /\ jobs' = jj
               /\ cbs' = ReadyAddedCallback(qq, jj)
               /\ reply' = Reply("jkick", "", 1, 0)
    /\ UNCHANGED <<rpl, sgroupcounts, sgtr, sched, limiter, db, rsv,
                   pendingDec, stay>>
    /\ UNCHANGED <<sstate, th, srv>>

\* "jkick" of cr.Keys = [key], or a nil cr.Keys (key 0)
JKick(key) ==
    /\ reply = NoReply
    /\ IF key = 0 THEN
            /\ reply' = Reply("jkick", ErrBadRequest, 0, 0)
            /\ UNCHANGED <<q, jobs, cbs>>
       ELSE IF QGet(key) = {} \/ ItemState(ItemOf(key)) # "bury" THEN
            /\ reply' = Reply("jkick", "", 0, 0)
            /\ UNCHANGED <<q, jobs, cbs>>
       ELSE LET j == ItemOf(key)
                qq == QKick(q, j)
                jj == [jobs EXCEPT ![j].UntilBuried = jobs[j].Retries + 1,
                                   ![j].State = JobStateReady]
            IN /\ FreeCallbacks # {}
               /\ q' = qq
               /\ jobs' = jj
               /\ cbs' = ReadyAddedCallback(qq, jj)
               /\ reply' = Reply("jkick", "", 1, 0)
    /\ UNCHANGED <<rpl, sgroupcounts, sgtr, sched, limiter, db, rsv,
                   pendingDec, stay>>
    /\ UNCHANGED <<sstate, th, srv>>

\* a deleteJobs that leaves the record in the live bucket
deleteJobsKeepRecord(key) ==
    LET j == ItemOf(key)
    IN /\ q' = QRemove(q, j)
       /\ db' = db
       /\ rpl' = [rpl EXCEPT ![jobs[j].RepGroup] = @ \ {key}]
       /\ jobs' = [jobs EXCEPT ![j] = NoJob]
       /\ IF ItemState(j) # "bury"
          THEN DecrementGroupCount(jobs[j].schedulerGroup)
          ELSE UNCHANGED <<sgroupcounts, sgtr, sched>>

\* deleteJobs for one key: a job that is not running is removed from the
\* queue, the live bucket and rpl; unless it was buried (and so no longer
\* counted) its group count is decremented
deleteJobs(key) ==
    LET j == ItemOf(key)
    IN /\ q' = QRemove(q, j)
       /\ db' = [db EXCEPT !.live = @ \ {key}]
       /\ rpl' = [rpl EXCEPT ![jobs[j].RepGroup] = @ \ {key}]
       /\ jobs' = [jobs EXCEPT ![j] = NoJob]
       /\ IF ItemState(j) # "bury"
          THEN DecrementGroupCount(jobs[j].schedulerGroup)
          ELSE UNCHANGED <<sgroupcounts, sgtr, sched>>

\* a jdel that also removes a running job
JDelRunning(key) ==
    /\ reply = NoReply
    /\ IF key = 0 \/ QGet(key) = {} THEN
            /\ reply' = Reply("jdel", IF key = 0 THEN ErrBadRequest ELSE "", 0, 0)
            /\ UNCHANGED <<q, jobs, rpl, db, sgroupcounts, sgtr, sched>>
       ELSE /\ deleteJobs(key)
            /\ reply' = Reply("jdel", "", 1, 0)
    /\ UNCHANGED <<limiter, rsv, cbs, pendingDec, stay>>
    /\ UNCHANGED <<sstate, th, srv>>

\* "jdel" of cr.Keys = [key], or a nil cr.Keys (key 0)
JDel(key) ==
    /\ reply = NoReply
    /\ IF key = 0 THEN
            /\ reply' = Reply("jdel", ErrBadRequest, 0, 0)
            /\ UNCHANGED <<q, jobs, rpl, db, sgroupcounts, sgtr, sched>>
       ELSE IF QGet(key) = {} \/ ItemState(ItemOf(key)) = "run" THEN
            /\ reply' = Reply("jdel", "", 0, 0)
            /\ UNCHANGED <<q, jobs, rpl, db, sgroupcounts, sgtr, sched>>
       ELSE /\ deleteJobs(key)
            /\ reply' = Reply("jdel", "", 1, 0)
    /\ UNCHANGED <<limiter, rsv, cbs, pendingDec, stay>>
    /\ UNCHANGED <<sstate, th, srv>>

\* the earlier "jdel" of cr.Keys = [key], or a nil cr.Keys (key 0): a buried
\* job is removed from the queue and from the live bucket, and from nothing
\* else
JDelBuried(key) ==
    /\ reply = NoReply
    /\ IF key = 0 THEN
            /\ reply' = Reply("jdel", ErrBadRequest, 0, 0)
            /\ UNCHANGED <<q, jobs, db>>
       ELSE IF QGet(key) = {} \/ ItemState(ItemOf(key)) # "bury" THEN
            /\ reply' = Reply("jdel", "", 0, 0)
            /\ UNCHANGED <<q, jobs, db>>
       ELSE /\ q' = QRemove(q, ItemOf(key))
            /\ db' = [db EXCEPT !.live = @ \ {key}]
            /\ jobs' = [jobs EXCEPT ![ItemOf(key)] = NoJob]
            /\ reply' = Reply("jdel", "", 1, 0)
    /\ UNCHANGED <<rpl, sgroupcounts, sgtr, sched, limiter, rsv, cbs,
                   pendingDec, stay>>
    /\ UNCHANGED <<sstate, th, srv>>

\* q.ChangeKey(old, new) fails when the new key is already an item's
ChangeKeyFails(new) == new \in QAll(q)

\* q.ChangeKey(old, new): the item is re-indexed in the sub-queue it is in
QChangeKey(qq, old, new) ==
    [s \in SubQueues |-> IF old \in qq[s] THEN (qq[s] \ {old}) \cup {new} ELSE qq[s]]

\* db.modifyLiveJobs: the record of the live bucket moves to the new key
modifyLiveJobs(d, old, new) == [d EXCEPT !.live = (@ \ {old}) \cup {new}]

\* the job pointers a callback holds follow the item to its new key
Rekeyed(data, old, new) ==
    [i \in 1..Len(data) |-> IF data[i][1] = old THEN <<new, data[i][2]>> ELSE data[i]]

\* Modify has given the job the key new, and s.q.ChangeKey(key, new) is
\* called: the item is re-indexed, or the call fails and the item stays
changeKey(key, new) ==
    IF ChangeKeyFails(new)
    THEN /\ jobs' = [jobs EXCEPT ![key].Key = new]
         /\ UNCHANGED <<q, cbs>>
    ELSE /\ q' = QChangeKey(q, key, new)
         /\ jobs' = [jobs EXCEPT ![key] = NoJob,
                                 ![new] = [jobs[key] EXCEPT !.Key = new]]
         /\ cbs' = [cb \in Callbacks |->
                      [cbs[cb] EXCEPT !.data = Rekeyed(@, key, new)]]

\* "jmod" of cr.Keys = [key] with a Modifier that gives the job the key new
\* (key 0: nil cr.Keys or nil Modifier). A job that is absent or running is
\* not modified; a modified job whose key changes is re-indexed in the queue,
\* in rpl under its RepGroup and in the live bucket. A failed ChangeKey is
\* logged and the update of rpl and of the live bucket is made all the same.
JMod(key, new) ==
    /\ reply = NoReply
    /\ IF key = 0 THEN
            /\ reply' = Reply("jmod", ErrBadRequest, 0, 0)
            /\ UNCHANGED <<q, jobs, rpl, db, cbs>>
       ELSE IF QGet(key) = {} \/ ItemState(ItemOf(key)) = "run" THEN
            /\ reply' = Reply("jmod", "", 0, 0)
            /\ UNCHANGED <<q, jobs, rpl, db, cbs>>
       ELSE IF key = new THEN
            /\ reply' = Reply("jmod", "", 1, 0)
            /\ UNCHANGED <<q, jobs, rpl, db, cbs>>
       ELSE /\ rpl' = [rpl EXCEPT ![jobs[key].RepGroup] = (@ \ {key}) \cup {new}]
            /\ changeKey(key, new)
            /\ db' = modifyLiveJobs(db, key, new)
            /\ reply' = Reply("jmod", "", 1, 0)
    /\ UNCHANGED <<sgroupcounts, sgtr, sched, limiter, rsv, pendingDec, stay>>
    /\ UNCHANGED <<sstate, th, srv>>

\* ------------------------------------------- handlers, lock by lock
\* A handler goroutine th[c] works through a program: a sequence of steps
\* [k, a, b]. k = "lock" takes the lock a (b: shared, as RLock does) and
\* waits while it is not free, "unlock" releases it, and the other steps
\* are the statements between.
Step(k, a, b) == [k |-> k, a |-> a, b |-> b]

\* the locks goroutine c holds, without their mode
HeldBy(c) == {th[c].held[i][1] : i \in 1..Len(th[c].held)}

\* c holds lock exclusively
HoldsExclusive(c, lock) ==
    \E i \in 1..Len(th[c].held) : th[c].held[i] = <<lock, FALSE>>

\* sync.Mutex and sync.RWMutex: Lock waits for every holder, RLock for a writer
CanLock(c, lock, shared) ==
    \A o \in Clients \ {c} :
        IF shared THEN ~HoldsExclusive(o, lock) ELSE lock \notin HeldBy(o)

\* held without its last entry for lock
RECURSIVE Released(_, _)
Released(held, lock) ==
    IF held = <<>> THEN <<>>
    ELSE IF held[Len(held)][1] = lock THEN SubSeq(held, 1, Len(held) - 1)
    ELSE Append(Released(SubSeq(held, 1, Len(held) - 1), lock), held[Len(held)])

\* the loop over the jobs of a request, one step k per key of the sequence ks
RECURSIVE ForEach(_, _, _)
ForEach(ks, k, rg) ==
    IF ks = <<>> THEN <<>>
    ELSE <<Step(k, rg, ks[1])>> \o ForEach(Tail(ks), k, rg)

\* a loop that takes and releases rpl.Lock for every job
RECURSIVE ForEachLocked(_, _)
ForEachLocked(ks, rg) ==
    IF ks = <<>> THEN <<>>
    ELSE <<Step("lock", "rpl", FALSE), Step("rplInsert", rg, ks[1]),
           Step("unlock", "rpl", FALSE)>> \o ForEachLocked(Tail(ks), rg)

\* an add that takes the rpl lock anew for every job
AddProgramPerJob(ks, rg) ==
    <<Step("AddMany", ks, rg)>> \o ForEachLocked(ks, rg)
    \o <<Step("reply", Len(ks), 0)>>

\* "add" of the jobs with the keys ks, all of RepGroup rg: storeNewJobs and
\* q.AddMany, then the lookup of every job is written under one rpl.Lock
AddProgram(ks, rg) ==
    <<Step("AddMany", ks, rg), Step("lock", "rpl", FALSE)>>
    \o ForEach(ks, "rplInsert", rg)
    \o <<Step("unlock", "rpl", FALSE), Step("reply", Len(ks), 0)>>

\* "jmod" of one key whose Modifier gives it the key new, from the collection
\* of toModify on. A job that is absent or running is not collected. For a
\* changed key: under rpl.Lock, q.ChangeKey (which takes the queue's lock),
\* delete(lookup[rp], old), lookup[rp][new] = true; then db.modifyLiveJobs;
\* s.Resume() ends every path on which s.Pause() gave no error
JModProgram(key, new) ==
    IF QGet(key) = {} \/ ItemState(ItemOf(key)) = "run"
    THEN <<Step("resume", 0, 0), Step("reply", 0, 0)>>
    ELSE IF key = new
    THEN <<Step("modifyLive", key, new), Step("resume", 0, 0), Step("reply", 1, 0)>>
    ELSE <<Step("lock", "rpl", FALSE),
           Step("lock", "queue", FALSE), Step("ChangeKey", key, new),
           Step("unlock", "queue", FALSE),
           Step("rplDelete", jobs[key].RepGroup, key),
           Step("rplInsert", jobs[key].RepGroup, new),
           Step("unlock", "rpl", FALSE),
           Step("modifyLive", key, new),
           Step("resume", 0, 0), Step("reply", 1, 0)>>

\* "getbr" of RepGroup rg: under rpl.RLock the keys of lookup[rg] are read
\* and looked up with q.Get (which takes the queue's lock)
GetBrProgram(rg) ==
    <<Step("lock", "rpl", TRUE), Step("lock", "queue", FALSE),
      Step("read", rg, 0), Step("unlock", "queue", FALSE),
      Step("unlock", "rpl", TRUE), Step("reply", 0, 0)>>

\* the locks of "jarchive", with the statements under them left out: the
\* read of s.up under ssmutex.RLock; job.Lock, and under it item.Stats(), which
\* takes the queue's lock; after job.Unlock, archiveJob and q.Remove; then
\* the delete from the lookup under rpl.Lock
JArchiveProgram ==
    <<Step("lock", "ssmutex", TRUE), Step("unlock", "ssmutex", TRUE),
      Step("lock", "job", FALSE),
      Step("lock", "queue", FALSE), Step("unlock", "queue", FALSE),
      Step("unlock", "job", FALSE),
      Step("lock", "rpl", FALSE), Step("skip", 0, 0), Step("unlock", "rpl", FALSE),
      Step("reply", 0, 0)>>

\* the locks of "jtouch": the read of s.up under ssmutex.RLock, killCalled
\* and Lost read under job.RLock, killRunners read under krmutex.RLock
JTouchProgram ==
    <<Step("lock", "ssmutex", TRUE), Step("unlock", "ssmutex", TRUE),
      Step("lock", "job", TRUE), Step("unlock", "job", TRUE),
      Step("lock", "leaf", TRUE), Step("unlock", "leaf", TRUE),
      Step("reply", 0, 0)>>

\* handleRequest is started in a goroutine of its own for a request
Start(c, method, prog) ==
    /\ reply = NoReply
    /\ th[c] = IdleTh
    /\ th' = [th EXCEPT ![c] = [IdleTh EXCEPT !.op = method, !.prog = prog]]
    /\ UNCHANGED <<q, jobs, rpl, sgroupcounts, sgtr, sched, limiter, db, rsv,
                   cbs, pendingDec, reply, stay, sstate, srv>>

AddBegin(c, ks, rg) == Start(c, "add", AddProgram(ks, rg))

\* "jmod" starts with s.Pause(); the jobs to modify are collected after it
JModBegin(c, key, new) ==
    Start(c, "jmod", <<Step("pause", 0, 0), Step("collect", key, new)>>)

GetBrBegin(c, rg) == Start(c, "getbr", GetBrProgram(rg))

JArchiveBegin(c) == Start(c, "jarchive", JArchiveProgram)

JTouchBegin(c) == Start(c, "jtouch", JTouchProgram)

\* Lock, RLock: the goroutine goes on when the lock is free for it
ThLock(c) ==
    /\ reply = NoReply
    /\ th[c].prog # <<>> /\ th[c].prog[1].k = "lock"
    /\ CanLock(c, th[c].prog[1].a, th[c].prog[1].b)
    /\ th' = [th EXCEPT ![c].prog = Tail(@),
                        ![c].held = Append(@, <<th[c].prog[1].a, th[c].prog[1].b>>)]
    /\ UNCHANGED <<q, jobs, rpl, sgroupcounts, sgtr, sched, limiter, db, rsv,
                   cbs, pendingDec, reply, stay, sstate, srv>>

\* Unlock, RUnlock
ThUnlock(c) ==
    /\ reply = NoReply
    /\ th[c].prog # <<>> /\ th[c].prog[1].k = "unlock"
    /\ th' = [th EXCEPT ![c].prog = Tail(@),
                        ![c].held = Released(@, th[c].prog[1].a)]
    /\ UNCHANGED <<q, jobs, rpl, sgroupcounts, sgtr, sched, limiter, db, rsv,
                   cbs, pendingDec, reply, stay, sstate, srv>>

\* db.storeNewJobs and q.AddMany of the jobs with the keys ks: the jobs that
\* are not in the queue yet enter ready, and the queue starts the ready
\* callback
ThAddMany(c) ==
    /\ reply = NoReply
    /\ th[c].prog # <<>> /\ th[c].prog[1].k = "AddMany"
    /\ \A o \in Clients \ {c} : "queue" \notin HeldBy(o)
    /\ LET ks == {th[c].prog[1].a[i] : i \in 1..Len(th[c].prog[1].a)}
           new == ks \ QAll(q)
           jj == [j \in Keys |-> IF j \in new
                                 THEN NewJob(j, 1, th[c].prog[1].b, MaxRetries)
                                 ELSE jobs[j]]
           qq == [q EXCEPT !.ready = @ \cup new]
       IN /\ new \cap Referenced = {}
          /\ new # {} => FreeCallbacks # {}
          /\ db' = [db EXCEPT !.live = @ \cup ks]
          /\ jobs' = jj
          /\ q' = qq
          /\ cbs' = IF new # {} THEN ReadyAddedCallback(qq, jj) ELSE cbs
    /\ th' = [th EXCEPT ![c].prog = Tail(@)]
    /\ UNCHANGED <<rpl, sgroupcounts, sgtr, sched, limiter, rsv, pendingDec,
                   reply, stay, sstate, srv>>

\* one write of s.rpl.lookup: lookup[rp][key] = true, or delete(lookup[rp], key)
ThRpl(c) ==
    /\ reply = NoReply
    /\ th[c].prog # <<>> /\ th[c].prog[1].k \in {"rplInsert", "rplDelete"}
    /\ rpl' = [rpl EXCEPT ![th[c].prog[1].a] =
                  IF th[c].prog[1].k = "rplInsert"
                  THEN @ \cup {th[c].prog[1].b} ELSE @ \ {th[c].prog[1].b}]
    /\ th' = [th EXCEPT ![c].prog = Tail(@), ![c].n = @ + 1]
    /\ UNCHANGED <<q, jobs, sgroupcounts, sgtr, sched, limiter, db, rsv, cbs,
                   pendingDec, reply, stay, sstate, srv>>

\* s.q.ChangeKey(old, new), with the queue's lock held
ThChangeKey(c) ==
    /\ reply = NoReply
    /\ th[c].prog # <<>> /\ th[c].prog[1].k = "ChangeKey"
    /\ changeKey(th[c].prog[1].a, th[c].prog[1].b)
    /\ th' = [th EXCEPT ![c].prog = Tail(@)]
    /\ UNCHANGED <<rpl, sgroupcounts, sgtr, sched, limiter, db, rsv,
                   pendingDec, reply, stay, sstate, srv>>

\* s.db.modifyLiveJobs
ThModifyLive(c) ==
    /\ reply = NoReply
    /\ th[c].prog # <<>> /\ th[c].prog[1].k = "modifyLive"
    /\ db' = modifyLiveJobs(db, th[c].prog[1].a, th[c].prog[1].b)
    /\ th' = [th EXCEPT ![c].prog = Tail(@)]
    /\ UNCHANGED <<q, jobs, rpl, sgroupcounts, sgtr, sched, limiter, rsv, cbs,
                   pendingDec, reply, stay, sstate, srv>>

\* the loop of getbr over the keys of lookup[rg]
ThRead(c) ==
    /\ reply = NoReply
    /\ th[c].prog # <<>> /\ th[c].prog[1].k = "read"
    /\ th' = [th EXCEPT ![c].prog = Tail(@), ![c].seen = rpl[th[c].prog[1].a]]
    /\ UNCHANGED <<q, jobs, rpl, sgroupcounts, sgtr, sched, limiter, db, rsv,
                   cbs, pendingDec, reply, stay, sstate, srv>>

\* a statement that touches nothing of the model but the lock it is under
ThSkip(c) ==
    /\ reply = NoReply
    /\ th[c].prog # <<>> /\ th[c].prog[1].k = "skip"
    /\ th' = [th EXCEPT ![c].prog = Tail(@)]
    /\ UNCHANGED <<q, jobs, rpl, sgroupcounts, sgtr, sched, limiter, db, rsv,
                   cbs, pendingDec, reply, stay, sstate, srv>>

\* s.Pause() of "jmod": the server is paused, and a "reserve" that arrives
\* from now on is answered as if nothing were ready
ThPause(c) ==
    /\ reply = NoReply
    /\ th[c].prog # <<>> /\ th[c].prog[1].k = "pause"
    /\ sstate' = [sstate EXCEPT !.drain = TRUE]
    /\ th' = [th EXCEPT ![c].prog = Tail(@)]
    /\ UNCHANGED <<q, jobs, rpl, sgroupcounts, sgtr, sched, limiter, db, rsv,
                   cbs, pendingDec, reply, stay, srv>>

\* the loop over cr.Keys that fills toModify with the jobs that are in the
\* queue and not in run
ThCollect(c) ==
    /\ reply = NoReply
    /\ th[c].prog # <<>> /\ th[c].prog[1].k = "collect"
    /\ th' = [th EXCEPT ![c].prog = JModProgram(th[c].prog[1].a, th[c].prog[1].b)]
    /\ UNCHANGED <<q, jobs, rpl, sgroupcounts, sgtr, sched, limiter, db, rsv,
                   cbs, pendingDec, reply, stay, sstate, srv>>

\* s.Resume() of "jmod"
ThResume(c) ==
    /\ reply = NoReply
    /\ th[c].prog # <<>> /\ th[c].prog[1].k = "resume"
    /\ sstate' = [sstate EXCEPT !.drain = FALSE, !.up = TRUE]
    /\ th' = [th EXCEPT ![c].prog = Tail(@)]
    /\ UNCHANGED <<q, jobs, rpl, sgroupcounts, sgtr, sched, limiter, db, rsv,
                   cbs, pendingDec, reply, stay, srv>>

\* the reply is sent and the goroutine ends
ThReply(c) ==
    /\ reply = NoReply
    /\ th[c].prog # <<>> /\ th[c].prog[1].k = "reply"
    /\ reply' = Reply(th[c].op, "", th[c].prog[1].a, 0)
    /\ th' = [th EXCEPT ![c] = IdleTh]
    /\ UNCHANGED <<q, jobs, rpl, sgroupcounts, sgtr, sched, limiter, db, rsv,
                   cbs, pendingDec, stay, sstate, srv>>

\* a step of the handler goroutine of c
ThStep(c) ==
    \/ ThLock(c)
    \/ ThUnlock(c)
    \/ ThAddMany(c)
    \/ ThRpl(c)
    \/ ThChangeKey(c)
    \/ ThModifyLive(c)
    \/ ThRead(c)
    \/ ThSkip(c)
    \/ ThPause(c)
    \/ ThCollect(c)
    \/ ThResume(c)
    \/ ThReply(c)

\* ------------------------------------------------------ the queue's timers
\* the TTR of a running item elapses without a touch: back to ready
TTRExpired(j) ==
    /\ reply = NoReply
    /\ j \in q.run
    /\ FreeCallbacks # {}
    /\ q' = QMove(q, j, "run", "ready")
    /\ stay' = [stay EXCEPT ![j] = 0]
    /\ cbs' = ReadyAddedCallback(q', jobs)
    /\ UNCHANGED <<jobs, rpl, sgroupcounts, sgtr, sched, limiter, db, rsv,
                   pendingDec, reply>>
    /\ UNCHANGED <<sstate, th, srv>>

\* the TTR of a running item elapses, and the job of the item, which had been
\* started, is marked as Lost
TTRExpiredLost(j) ==
    /\ reply = NoReply
    /\ j \in q.run
    /\ jobs[j].StartTime # 0
    /\ FreeCallbacks # {}
    /\ q' = QMove(q, j, "run", "ready")
    /\ stay' = [stay EXCEPT ![j] = 0]
    /\ jobs' = [jobs EXCEPT ![j].Lost = TRUE]
    /\ cbs' = ReadyAddedCallback(q', jobs')
    /\ UNCHANGED <<rpl, sgroupcounts, sgtr, sched, limiter, db, rsv,
                   pendingDec, reply>>
    /\ UNCHANGED <<sstate, th, srv>>

\* the delay of a delayed item elapses
DelayExpired(j) ==
    /\ reply = NoReply
    /\ j \in q.delay
    /\ FreeCallbacks # {}
    /\ q' = QMove(q, j, "delay", "ready")
    /\ cbs' = ReadyAddedCallback(q', jobs)
    /\ UNCHANGED <<jobs, rpl, sgroupcounts, sgtr, sched, limiter, db, rsv,
                   pendingDec, reply, stay>>
    /\ UNCHANGED <<sstate, th, srv>>

\* the dependencies of a dependent item are resolved
DepsResolved(j) ==
    /\ reply = NoReply
    /\ j \in q.dependent
    /\ FreeCallbacks # {}
    /\ q' = QMove(q, j, "dependent", "ready")
    /\ cbs' = ReadyAddedCallback(q', jobs)
    /\ UNCHANGED <<jobs, rpl, sgroupcounts, sgtr, sched, limiter, db, rsv,
                   pendingDec, reply, stay>>
    /\ UNCHANGED <<sstate, th, srv>>

\* s.reply: the response is sent. No action reads reply, so letting it reach
\* the client before the next step is taken removes no behaviour of the server
ReplySent ==
    /\ reply # NoReply
    /\ reply' = NoReply
    /\ UNCHANGED <<q, jobs, rpl, sgroupcounts, sgtr, sched, limiter, db, rsv,
                   cbs, pendingDec, stay>>
    /\ UNCHANGED <<sstate, th, srv>>

\* ------------------------------------------------- the dispatcher's gate
\* the methods of the switch that are modelled
Methods == {"ping", "add", "reserve", "jstart", "jtouch", "jarchive",
            "jrelease", "jbury", "jkick", "jdel", "drain", "resume",
            "shutdown"}

\* a token check that lets every request of a client through
wrongTokenNever(method, tokenOk) == FALSE

\* the client does not present the expected token, and does not ping
wrongToken(method, tokenOk) == ~tokenOk /\ method # "ping"

\* a gate that looks at the queue only
stoppedWithoutQueue == ~sstate.q

\* a gate that wants the server up
stoppedUnlessUp == ~sstate.q \/ ~sstate.up

\* the server just got shut down: the queue is gone, or the server is
\* neither up nor draining (up and drain as read under ssmutex at entry)
stopped == ~sstate.q \/ (~sstate.up /\ ~sstate.drain)

\* a request that no handler runs for: only the error is replied
Refuse(method, err) ==
    /\ reply = NoReply
    /\ reply' = Reply(method, err, 0, 0)
    /\ UNCHANGED <<q, jobs, rpl, sgroupcounts, sgtr, sched, limiter, db, rsv,
                   cbs, pendingDec, stay, sstate, th, srv>>

\* "ping": a copy of ServerInfo is the reply
Ping ==
    /\ reply = NoReply
    /\ reply' = Reply("ping", "", 0, 0)
    /\ UNCHANGED <<q, jobs, rpl, sgroupcounts, sgtr, sched, limiter, db, rsv,
                   cbs, pendingDec, stay, sstate, th, srv>>

\* "drain": Server.Drain sets drain; whether it also clears up is not fixed
Drain ==
    /\ reply = NoReply
    /\ \E u \in {sstate.up, FALSE} :
          sstate' = [sstate EXCEPT !.drain = TRUE, !.up = u]
    /\ reply' = Reply("drain", "", 0, 0)
    /\ UNCHANGED <<q, jobs, rpl, sgroupcounts, sgtr, sched, limiter, db, rsv,
                   cbs, pendingDec, stay, th, srv>>

\* "resume": Server.Resume brings a draining server back up
Resume ==
    /\ reply = NoReply
    /\ sstate' = [sstate EXCEPT !.drain = FALSE, !.up = TRUE]
    /\ reply' = Reply("resume", "", 0, 0)
    /\ UNCHANGED <<q, jobs, rpl, sgroupcounts, sgtr, sched, limiter, db, rsv,
                   cbs, pendingDec, stay, th, srv>>

\* "shutdown": Server.Stop; the server is no longer up, and shutdown() may
\* already have destroyed the queue when the next request is looked at
Stop ==
    /\ reply = NoReply
    /\ \E there \in {sstate.q, FALSE} :
          sstate' = [sstate EXCEPT !.up = FALSE, !.drain = FALSE, !.q = there]
    /\ reply' = Reply("shutdown", "", 0, 0)
    /\ UNCHANGED <<q, jobs, rpl, sgroupcounts, sgtr, sched, limiter, db, rsv,
                   cbs, pendingDec, stay, th, srv>>

\* "reserve" gets past the gate with the snapshot of up and drain it took at
\* its entry: the queue is there, the server is up and not draining
ReserveEnter(c, group) ==
    /\ reply = NoReply
    /\ rsv[c].pc = "idle"
    /\ ~stopped /\ ~sstate.drain
    /\ rsv' = [rsv EXCEPT ![c] = [pc |-> "in", group |-> group, item |-> 0]]
    /\ UNCHANGED <<q, jobs, rpl, sgroupcounts, sgtr, sched, limiter, db, cbs,
                   pendingDec, reply, stay, sstate, th, srv>>

\* the first attempt of a "reserve" that is past the gate. When the queue
\* has been destroyed in between, its Reserve fails with ErrQueueClosed
ReserveAttempt(c) ==
    /\ reply = NoReply
    /\ rsv[c].pc = "in"
    /\ IF ~sstate.q
       THEN /\ rsv' = [rsv EXCEPT ![c].pc = "closedFirst"]
            /\ UNCHANGED <<q, jobs, limiter, stay>>
       ELSE \E item \in Keys \cup {0} :
            /\ reserveWithLimits(IF rsv[c].group # NoGroup
                                 THEN <<rsv[c].group>> ELSE <<>>, item)
            /\ rsv' = [rsv EXCEPT ![c] =
                   IF item # 0 THEN [pc |-> "got", group |-> NoGroup, item |-> item]
                   ELSE [pc |-> "poll", group |-> rsv[c].group, item |-> 0]]
    /\ UNCHANGED <<rpl, sgroupcounts, sgtr, sched, db, cbs, pendingDec, reply,
                   sstate, th, srv>>

\* a tick of the polling goroutine on which the queue's Reserve fails with
\* ErrQueueClosed
ReservePollClosed(c) ==
    /\ reply = NoReply
    /\ rsv[c].pc = "poll"
    /\ ~sstate.q
    /\ rsv' = [rsv EXCEPT ![c].pc = "closedPoll"]
    /\ UNCHANGED <<q, jobs, rpl, sgroupcounts, sgtr, sched, limiter, db, cbs,
                   pendingDec, reply, stay, sstate, th, srv>>

\* the reply of a "reserve" whose Reserve failed with ErrQueueClosed: the
\* polling goroutine hands ErrQueueClosed over on itemerrch, and it becomes
\* srerr; for the error of the first attempt only ErrNothingReady is looked
\* for, and srerr and item stay empty
ReserveFailed(c) ==
    /\ reply = NoReply
    /\ rsv[c].pc \in {"closedFirst", "closedPoll"}
    /\ reply' = Reply("reserve",
                      IF rsv[c].pc = "closedPoll" THEN ErrQueueClosed ELSE "", 0, 0)
    /\ rsv' = [rsv EXCEPT ![c] = IdleRsv]
    /\ UNCHANGED <<q, jobs, rpl, sgroupcounts, sgtr, sched, limiter, db, cbs,
                   pendingDec, stay, sstate, th, srv>>

\* handleRequest for the request cr. Its fields: Method, ClientID, Job (the
\* key of cr.Job; 0: of no job in the queue), SchedulerGroup, FirstReserve,
\* JobEndState; tokenOk: cr.Token has the token's length and matches s.token;
\* zeroID: cr.ClientID is all zero; add: cr.Jobs, cr.Env and cr.IgnoreComplete;
\* argsOk: jstart's arguments are there; dbOk: the DB call succeeds
handleRequest(cr) ==
    IF wrongToken(cr.Method, cr.tokenOk)
    THEN Refuse(cr.Method, ErrPermissionDenied)
    ELSE IF stopped THEN Refuse(cr.Method, ErrClosedStop)
    ELSE \/ cr.Method = "ping" /\ Ping
         \/ cr.Method = "drain" /\ Drain
         \/ cr.Method = "resume" /\ Resume
         \/ cr.Method = "shutdown" /\ Stop
         \/ cr.Method = "add" /\ Add(cr.add)
         \/ /\ cr.Method = "reserve"
            /\ ReserveFirst(cr.ClientID, cr.SchedulerGroup, cr.FirstReserve,
                            cr.zeroID)
         \/ cr.Method = "jstart" /\ JStart(cr.ClientID, cr.Job, cr.argsOk)
         \/ cr.Method = "jtouch" /\ JTouch(cr.ClientID, cr.Job)
         \/ /\ cr.Method = "jarchive"
            /\ JArchive(cr.ClientID, cr.Job, cr.JobEndState, cr.dbOk)
         \/ cr.Method = "jrelease" /\ JRelease(cr.ClientID, cr.Job, cr.JobEndState)
         \/ cr.Method = "jbury" /\ JBury(cr.ClientID, cr.Job, cr.JobEndState)
         \/ cr.Method = "jkick" /\ JKick(cr.Job)
         \/ cr.Method = "jdel" /\ JDel(cr.Job)

\* ------------------------------------------------ Serve, Block and Stop
ErrClosedInt == "queues closed due to SIGINT"
ErrClosedTerm == "queues closed due to SIGTERM"

\* the signals Serve has itself notified of
Signals == {"SIGINT", "SIGTERM"}

\* the error the receiver sends on done for what its select took
ClosedError(taken) ==
    IF taken = "SIGINT" THEN ErrClosedInt
    ELSE IF taken = "SIGTERM" THEN ErrClosedTerm
    ELSE ErrClosedStop

\* the operating system delivers a signal: it is put on sigs unless the
\* channel is full or signal.Stop has been called
Signal(sig) ==
    /\ srv.pc = "loop"
    /\ Len(srv.sigs) < 2
    /\ srv' = [srv EXCEPT !.sigs = Append(@, sig)]
    /\ UNCHANGED <<q, jobs, rpl, sgroupcounts, sgtr, sched, limiter, db, rsv,
                   cbs, pendingDec, reply, stay, sstate, th>>

\* a receiver that goes on with its loop after it has sent on done
shutdownAndGoOn(taken) ==
    /\ sstate' = [sstate EXCEPT !.q = FALSE]
    /\ srv' = [srv EXCEPT !.sock = FALSE, !.closes = @ + 1,
                          !.done = Append(@, ClosedError(taken)),
                          !.taken = taken, !.sent = @ + 1,
                          !.sigs = IF taken \in Signals THEN Tail(@) ELSE @,
                          !.stop = IF taken \in Signals THEN @ ELSE 0]

\* shutdown(), then the send on done and the return of the receiver goroutine
shutdown(taken) ==
    /\ sstate' = [sstate EXCEPT !.q = FALSE]
    /\ srv' = [srv EXCEPT !.pc = "returned", !.sock = FALSE, !.closes = @ + 1,
                          !.done = Append(@, ClosedError(taken)),
                          !.taken = taken, !.sent = @ + 1,
                          !.sigs = IF taken \in Signals THEN Tail(@) ELSE @,
                          !.stop = IF taken \in Signals THEN @ ELSE 0]

\* the receiver's select takes a signal: case sig := <-sigs
RecvSignal ==
    /\ srv.pc = "loop"
    /\ srv.sigs # <<>>
    /\ Len(srv.done) < 1
    /\ shutdown(Head(srv.sigs))
    /\ UNCHANGED <<q, jobs, rpl, sgroupcounts, sgtr, sched, limiter, db, rsv,
                   cbs, pendingDec, reply, stay, th>>

\* the receiver's select takes the stop: case <-stop
RecvStop ==
    /\ srv.pc = "loop"
    /\ srv.stop > 0
    /\ Len(srv.done) < 1
    /\ shutdown("stop")
    /\ UNCHANGED <<q, jobs, rpl, sgroupcounts, sgtr, sched, limiter, db, rsv,
                   cbs, pendingDec, reply, stay, th>>

\* the default case of the select, taken when neither channel has a value:
\* sock.RecvMsg gives a request, which is handled in a goroutine
RecvMsg == srv.pc = "loop" /\ srv.sigs = <<>> /\ srv.stop = 0

\* Block: s.blocking = true, and the caller waits for done
BlockCall ==
    /\ srv.block = "none"
    /\ srv' = [srv EXCEPT !.block = "wait", !.blocking = TRUE]
    /\ UNCHANGED <<q, jobs, rpl, sgroupcounts, sgtr, sched, limiter, db, rsv,
                   cbs, pendingDec, reply, stay, sstate, th>>

\* Block: err = <-s.done; s.db.close(); s.up = false; s.blocking = false
BlockReturn ==
    /\ srv.block = "wait"
    /\ srv.done # <<>>
    /\ srv' = [srv EXCEPT !.block = "returned", !.blockErr = Head(srv.done),
                          !.done = Tail(@), !.closes = @ + 1, !.blocking = FALSE]
    /\ sstate' = [sstate EXCEPT !.up = FALSE]
    /\ UNCHANGED <<q, jobs, rpl, sgroupcounts, sgtr, sched, limiter, db, rsv,
                   cbs, pendingDec, reply, stay, th>>

\* Stop, called by c: if s.up; a Stop of a server that is not up returns at
\* once
StopCall(c) ==
    /\ srv.stopper[c] = "none"
    /\ srv' = [srv EXCEPT !.stopper[c] = IF sstate.up THEN "send" ELSE "returned"]
    /\ UNCHANGED <<q, jobs, rpl, sgroupcounts, sgtr, sched, limiter, db, rsv,
                   cbs, pendingDec, reply, stay, sstate, th>>

\* Stop: s.stop <- true, which waits while the channel's one place is taken.
\* atStop: a caller was blocked in Block when Stop sent
StopSend(c) ==
    /\ srv.stopper[c] = "send"
    /\ srv.stop < 1
    /\ srv' = [srv EXCEPT !.stop = @ + 1, !.stopper[c] = "sent",
                          !.atStop = (srv.block = "wait")]
    /\ UNCHANGED <<q, jobs, rpl, sgroupcounts, sgtr, sched, limiter, db, rsv,
                   cbs, pendingDec, reply, stay, sstate, th>>

\* Stop: if !s.blocking, the caller itself waits for done
StopCheck(c) ==
    /\ srv.stopper[c] = "sent"
    /\ srv' = [srv EXCEPT !.stopper[c] = IF srv.blocking THEN "returned" ELSE "wait"]
    /\ UNCHANGED <<q, jobs, rpl, sgroupcounts, sgtr, sched, limiter, db, rsv,
                   cbs, pendingDec, reply, stay, sstate, th>>

\* Stop: err = <-s.done; s.db.close(); s.up = false
StopReturn(c) ==
    /\ srv.stopper[c] = "wait"
    /\ srv.done # <<>>
    /\ srv' = [srv EXCEPT !.stopper[c] = "returned", !.stopErr[c] = Head(srv.done),
                          !.done = Tail(@), !.closes = @ + 1]
    /\ sstate' = [sstate EXCEPT !.up = FALSE]
    /\ UNCHANGED <<q, jobs, rpl, sgroupcounts, sgtr, sched, limiter, db, rsv,
                   cbs, pendingDec, reply, stay, th>>

\* the goroutines and timers of the server, and the delivery of replies
Internal ==
    \/ \E cb \in Callbacks : CbPlace(cb)
    \/ \E cb \in Callbacks : CbSetReq(cb)
    \/ \E cb \in Callbacks : CbSchedule(cb)
    \/ \E g \in Groups : AsyncDecrement(g)
    \/ \E c \in Clients : ReservePoll(c)
    \/ \E c \in Clients : ReserveTimeout(c)
    \/ \E c \in Clients : ReserveFinish(c)
    \/ \E j \in Keys : TTRExpired(j)
    \/ \E j \in Keys : DelayExpired(j)
    \/ \E j \in Keys : DepsResolved(j)
    \/ ReplySent

\* the requests the server accepts, of the clients CS about the keys KS, with
\* jobs of the requirements RS and end states of ES
Requests(KS, CS, RS, ES) ==
    \/ \E cr \in AddRequests(KS, RS) : Add(cr)
    \/ \E c \in CS, group \in (RS \cup {NoGroup}), first \in BOOLEAN :
          ReserveFirst(c, group, first, FALSE)
    \/ \E c \in CS, key \in KS, argsOk \in BOOLEAN :
          getij(c, key) = "" /\ JStart(c, key, argsOk)
    \/ \E c \in CS, key \in KS : getij(c, key) = "" /\ JTouch(c, key)
    \/ \E c \in CS, key \in KS, es \in ES, dbOk \in BOOLEAN :
          getij(c, key) = "" /\ JArchive(c, key, es, dbOk)
    \/ \E c \in CS, key \in KS, es \in ES :
          getij(c, key) = "" /\ JRelease(c, key, es)
    \/ \E c \in CS, key \in KS, es \in ES :
          getij(c, key) = "" /\ JBury(c, key, es)
    \/ \E key \in KS : JKick(key)
    \/ \E key \in KS : JDel(key)

\* every client, one key, one requirement: the dispatcher around one job,
\* with the requests the server accepts
Next ==
    \/ Requests({1}, Clients, {1}, EndStates)
    \/ Internal

Spec == Init /\ [][Next]_vars

\* one key, one requirement; client 1 reserves, and every client sends j*
\* requests, the ones that are turned down included
NextBad ==
    \/ \E cr \in AddRequests({1}, {1}) \cup BadAddRequests : Add(cr)
    \/ \E zeroID \in BOOLEAN : ReserveFirst(1, NoGroup, FALSE, zeroID)
    \/ \E c \in Clients, key \in {0, 1}, argsOk \in BOOLEAN : JStart(c, key, argsOk)
    \/ \E c \in Clients, key \in {0, 1} : JTouch(c, key)
    \/ \E c \in Clients, key \in {0, 1}, es \in EndStates, dbOk \in BOOLEAN :
          JArchive(c, key, es, dbOk)
    \/ \E c \in Clients, key \in {0, 1}, es \in EndStates : JRelease(c, key, es)
    \/ \E c \in Clients, key \in {0, 1}, es \in EndStates : JBury(c, key, es)
    \/ \E key \in {0, 1} : JKick(key)
    \/ \E key \in {0, 1} : JDel(key)
    \/ Internal

SpecBad == Init /\ [][NextBad]_vars

\* every key, one requirement, one client whose requests are accepted: the
\* coordinator with several jobs that are added, reserved, released, buried
\* and kicked
NextJobs ==
    \/ \E cr \in AddRequests(Keys, {1}) :
          cr.dest = "ready" /\ ~cr.ignoreComplete /\ Add(cr)
    \/ q.ready # {} /\ ReserveFirst(1, NoGroup, FALSE, FALSE)
    \/ ReserveFinish(1)
    \/ \E key \in Keys : getij(1, key) = "" /\ JBury(1, key, "exit1")
    \/ \E key \in Keys : getij(1, key) = "" /\ JRelease(1, key, "exit1")
    \/ \E key \in Keys : key \in q.bury /\ JKick(key)
    \/ \E j \in Keys : TTRExpired(j)
    \/ \E j \in Keys : DelayExpired(j)
    \/ \E cb \in Callbacks : CbPlace(cb)
    \/ \E cb \in Callbacks : CbSetReq(cb)
    \/ \E cb \in Callbacks : CbSchedule(cb)
    \/ ReplySent

SpecJobs == Init /\ [][NextJobs]_vars

\* the batches of keys of one add request
KeyBatches == {<<1>>, <<1, 2>>, <<2, 1>>}

\* two handler goroutines at work at once, lock by lock: adds of one job
\* and of several, jmod, getbr, the locks of jarchive and jtouch, and the
\* ready callback
NextLocks ==
    \/ \E c \in Clients, ks \in KeyBatches, rg \in RepGroups : AddBegin(c, ks, rg)
    \/ \E c \in Clients, key \in Keys, new \in Keys : JModBegin(c, key, new)
    \/ \E c \in Clients, rg \in RepGroups : GetBrBegin(c, rg)
    \/ \E c \in Clients : JArchiveBegin(c)
    \/ \E c \in Clients : JTouchBegin(c)
    \/ \E c \in Clients : ThStep(c)
    \/ \E cb \in Callbacks : CbPlace(cb)
    \/ \E cb \in Callbacks : CbSetReq(cb)
    \/ \E cb \in Callbacks : CbSchedule(cb)
    \/ ReplySent

SpecLocks == Init /\ [][NextLocks]_vars

\* Serve's receiver with one job: requests are received and handled until a
\* signal or a stop is taken; Block and Stop are each called once, at any time
NextStop ==
    \/ RecvMsg /\ \E cr \in AddRequests({1}, {1}) :
          cr.dest = "ready" /\ ~cr.ignoreComplete /\ Add(cr)
    \/ RecvMsg /\ ReserveFirst(1, NoGroup, FALSE, FALSE)
    \/ RecvMsg /\ getij(1, 1) = "" /\ JBury(1, 1, "exit1")
    \/ RecvMsg /\ JDel(1)
    \/ ReserveFinish(1)
    \/ \E cb \in Callbacks : CbPlace(cb)
    \/ \E cb \in Callbacks : CbSetReq(cb)
    \/ \E cb \in Callbacks : CbSchedule(cb)
    \/ ReplySent
    \/ \E sig \in Signals : Signal(sig)
    \/ RecvSignal
    \/ RecvStop
    \/ BlockCall
    \/ BlockReturn
    \/ StopCall(1)
    \/ StopSend(1)
    \/ StopCheck(1)
    \/ StopReturn(1)

\* the receiver goroutine and the callers of Block and Stop keep running
SpecStop ==
    /\ Init /\ [][NextStop]_vars
    /\ WF_vars(RecvSignal \/ RecvStop)
    /\ WF_vars(BlockReturn)
    /\ WF_vars(StopSend(1)) /\ WF_vars(StopCheck(1)) /\ WF_vars(StopReturn(1))

\* Serve's receiver with one job, no signal, and Stop called by every client,
\* each once, at any time, with or without a caller of Block
NextStops ==
    \/ RecvMsg /\ \E cr \in AddRequests({1}, {1}) :
          cr.dest = "ready" /\ ~cr.ignoreComplete /\ Add(cr)
    \/ RecvMsg /\ ReserveFirst(1, NoGroup, FALSE, FALSE)
    \/ ReserveFinish(1)
    \/ \E cb \in Callbacks : CbPlace(cb)
    \/ \E cb \in Callbacks : CbSetReq(cb)
    \/ \E cb \in Callbacks : CbSchedule(cb)
    \/ ReplySent
    \/ RecvStop
    \/ BlockCall
    \/ BlockReturn
    \/ \E c \in Clients : StopCall(c)
    \/ \E c \in Clients : StopSend(c)
    \/ \E c \in Clients : StopCheck(c)
    \/ \E c \in Clients : StopReturn(c)

SpecStops ==
    /\ Init /\ [][NextStops]_vars
    /\ WF_vars(RecvStop)
    /\ WF_vars(BlockReturn)
    /\ \A c \in Clients :
          WF_vars(StopSend(c)) /\ WF_vars(StopCheck(c)) /\ WF_vars(StopReturn(c))

\* every key, jobs of the scheduler group that has a limit group, one client
\* that reserves with and without a scheduler group, at once or by polling,
\* and buries or releases what it reserved
NextLimit ==
    \/ \E cr \in AddRequests(Keys, {LimitedGroup}) :
          cr.dest = "ready" /\ ~cr.ignoreComplete /\ Add(cr)
    \/ \E group \in {NoGroup, LimitedGroup} : ReserveFirst(1, group, FALSE, FALSE)
    \/ ReservePoll(1)
    \/ ReserveTimeout(1)
    \/ ReserveFinish(1)
    \/ \E key \in Keys : getij(1, key) = "" /\ JBury(1, key, "exit1")
    \/ \E key \in Keys : getij(1, key) = "" /\ JRelease(1, key, "exit1")
    \/ \E j \in Keys : DelayExpired(j)
    \/ \E cb \in Callbacks : CbPlace(cb)
    \/ \E cb \in Callbacks : CbSetReq(cb)
    \/ \E cb \in Callbacks : CbSchedule(cb)
    \/ ReplySent

SpecLimit == Init /\ [][NextLimit]_vars

\* ------------------------------------------------------------ properties

C3_Diagram ==
    {<<"removed", "ready">>, <<"removed", "dependent">>, <<"removed", "delay">>,
     <<"dependent", "ready">>, <<"delay", "ready">>, <<"ready", "run">>,
     <<"run", "ready">>, <<"run", "removed">>, <<"run", "delay">>,
     <<"run", "bury">>, <<"bury", "ready">>,
     <<"ready", "removed">>, <<"delay", "removed">>, <<"bury", "removed">>,
     <<"dependent", "removed">>}

\* the trigger the diagram gives for a change, checked on the step that makes it
C3_Trigger(j, from, to) ==
    /\ from = "removed" => reply'.method = "add"
    /\ (from = "run" /\ to = "removed") => reply'.method = "jarchive"
    /\ (from # "run" /\ to = "removed") => reply'.method = "jdel"
    /\ (from = "run" /\ to = "delay") =>
           reply'.method = "jrelease" /\ jobs'[j].UntilBuried > 0
    /\ (from = "run" /\ to = "bury") =>
           \/ reply'.method = "jbury"
           \/ reply'.method = "jrelease" /\ jobs'[j].UntilBuried <= 0
    /\ (from = "bury" /\ to = "ready") => reply'.method = "jkick"
    /\ (from = "ready" /\ to = "run") =>
           reply' = NoReply /\ \E c \in Clients : rsv'[c] # rsv[c] /\ rsv'[c].item = j
    /\ (to = "ready" /\ from \in {"run", "delay", "dependent"}) => reply' = NoReply

C4_ReservedByIffRun ==
    (\A c \in Clients : rsv[c].pc # "got") =>
        \A j \in Keys : (jobs[j].ReservedBy # NoClient) <=> (j \in q.run)

\* what C5 expects of a j* request of client c for key (0: no Job)
C5_Expected(c, key) ==
    IF key = 0 THEN ErrBadRequest
    ELSE IF key \notin QAll(q) \/ key \notin q.run THEN ErrBadJob
    ELSE IF jobs[key].ReservedBy # c THEN ErrMustReserve
    ELSE ""

\* a step of jstart, jtouch, jarchive, jrelease or jbury for that request
C5_Step(c, key) ==
    \/ \E argsOk \in BOOLEAN : JStart(c, key, argsOk)
    \/ JTouch(c, key)
    \/ \E es \in EndStates, dbOk \in BOOLEAN : JArchive(c, key, es, dbOk)
    \/ \E es \in EndStates : JRelease(c, key, es)
    \/ \E es \in EndStates : JBury(c, key, es)

Quiescent ==
    /\ \A cb \in Callbacks : cbs[cb].pc = "idle"
    /\ \A g \in Groups : pendingDec[g] = 0
    /\ \A c \in Clients : rsv[c].pc = "idle"

\* the jobs of group g that are demand: ready, running, delayed or dependent
Demand(g) ==
    {j \in q.ready \cup q.run \cup q.delay \cup q.dependent :
        jobs[j].schedulerGroup = g}

\* C6: in every quiescent state the count of a group (0 when absent) is the
\* number of its jobs that are ready, running, delayed or dependent.
C6_CountIsDemand ==
    Quiescent => \A g \in Groups : MapGet(sgroupcounts, g, 0) = Cardinality(Demand(g))

\* C7: a count is never negative, and when no callback is under way the count
\* of a group (0 when absent) is at least the number of its jobs that are
\* ready, running, delayed or dependent: it never under-estimates demand.
C7_CountCoversDemand ==
    /\ \A g \in DOMAIN sgroupcounts : sgroupcounts[g] >= 0
    /\ (\A cb \in Callbacks : cbs[cb].pc = "idle") =>
           \A g \in Groups : MapGet(sgroupcounts, g, 0) >= Cardinality(Demand(g))

\* C8: the count of the most recent Schedule call for a group is the group's
\* current count, 0 when the count has been deleted.
C8_ScheduleFollowsCount ==
    \A g \in DOMAIN sched : sched[g].count = MapGet(sgroupcounts, g, 0)

\* C9: the test of sgtr and the write that depends on it are one sgcmutex
\* critical section: no callback stands between the two.
C9_OneCriticalSection ==
    \A cb \in Callbacks : cbs[cb].pc # "setreq"

\* C10: when no callback is under way, a ready item whose job has the
\* scheduler group g has sgtr[g] present.
C10_ReadyHasRequirements ==
    (\A cb \in Callbacks : cbs[cb].pc = "idle") =>
        \A j \in q.ready :
            jobs[j].schedulerGroup # NoGroup => jobs[j].schedulerGroup \in DOMAIN sgtr

\* the requests of client 1 about key 1, of every method, with and without
\* the token
GateRequests ==
    { [Method |-> m, tokenOk |-> t, ClientID |-> 1, zeroID |-> FALSE, Job |-> 1,
       SchedulerGroup |-> NoGroup, FirstReserve |-> FALSE, JobEndState |-> es,
       argsOk |-> TRUE, dbOk |-> TRUE, add |-> a] :
         m \in Methods, t \in BOOLEAN, es \in {"exit0", "exit1"},
         a \in {x \in AddRequests({1}, {1}) :
                   x.dest = "ready" /\ ~x.ignoreComplete} }

\* one key and one client whose requests go through the whole of
\* handleRequest: with and without the token, while the server is up,
\* draining, resumed and stopped
NextGate ==
    \/ \E cr \in GateRequests : handleRequest(cr)
    \/ \E cb \in Callbacks : CbPlace(cb)
    \/ \E cb \in Callbacks : CbSetReq(cb)
    \/ \E cb \in Callbacks : CbSchedule(cb)
    \/ \E g \in Groups : AsyncDecrement(g)
    \/ ReserveTimeout(1)
    \/ ReserveFinish(1)
    \/ \E j \in Keys : DelayExpired(j)
    \/ ReplySent

SpecGate == Init /\ [][NextGate]_vars

\* one job that client 1 reserves, starts and archives, again and again; the
\* goroutine that jarchive starts gets to run, and every reply is sent
NextArchive ==
    \/ \E cr \in AddRequests({1}, {1}) :
          cr.dest = "ready" /\ ~cr.ignoreComplete /\ Add(cr)
    \/ \E first \in BOOLEAN : ReserveFirst(1, NoGroup, first, FALSE)
    \/ ReserveTimeout(1)
    \/ ReserveFinish(1)
    \/ getij(1, 1) = "" /\ JStart(1, 1, TRUE)
    \/ \E es \in EndStates, dbOk \in BOOLEAN :
          getij(1, 1) = "" /\ JArchive(1, 1, es, dbOk)
    \/ \E j \in Keys : TTRExpired(j)
    \/ \E cb \in Callbacks : CbPlace(cb)
    \/ \E cb \in Callbacks : CbSetReq(cb)
    \/ \E cb \in Callbacks : CbSchedule(cb)
    \/ \E g \in Groups : AsyncDecrement(g)
    \/ ReplySent

SpecArchive ==
    /\ Init
    /\ [][NextArchive]_vars
    /\ WF_vars(ReplySent)
    /\ \A g \in Groups : SF_vars(AsyncDecrement(g))

\* one job, and client 1 who reserves with a timeout, with and without a
\* scheduler group, and polls when nothing is ready; the timer of a polling
\* reserve fires, and every reply is sent
NextPoll ==
    \/ \E cr \in AddRequests({1}, {1}) :
          cr.dest = "ready" /\ ~cr.ignoreComplete /\ Add(cr)
    \/ \E group \in {NoGroup, 1} : ReserveFirst(1, group, FALSE, FALSE)
    \/ ReservePoll(1)
    \/ ReserveTimeout(1)
    \/ ReserveFinish(1)
    \/ getij(1, 1) = "" /\ JStart(1, 1, TRUE)
    \/ getij(1, 1) = "" /\ JArchive(1, 1, "exit0", TRUE)
    \/ \E cb \in Callbacks : CbPlace(cb)
    \/ \E cb \in Callbacks : CbSetReq(cb)
    \/ \E cb \in Callbacks : CbSchedule(cb)
    \/ \E g \in Groups : AsyncDecrement(g)
    \/ ReplySent

SpecPoll ==
    /\ Init
    /\ [][NextPoll]_vars
    /\ WF_vars(ReplySent)
    /\ SF_vars(ReserveTimeout(1))

\* one job at a time, which client 1 modifies with "jmod", giving it the same
\* or another key, while client 2 reserves, polls when nothing is ready, and
\* releases
NextPause ==
    \/ \E cr \in AddRequests({1}, {1}) :
          QAll(q) = {} /\ cr.dest = "ready" /\ ~cr.ignoreComplete /\ Add(cr)
    \/ ReserveFirst(2, NoGroup, FALSE, FALSE)
    \/ ReservePoll(2)
    \/ ReserveTimeout(2)
    \/ ReserveFinish(2)
    \/ \E key \in Keys : getij(2, key) = "" /\ JRelease(2, key, "exit1")
    \/ \E key \in Keys, new \in Keys : JModBegin(1, key, new)
    \/ ThPause(1)
    \/ ThCollect(1)
    \/ ThLock(1)
    \/ ThUnlock(1)
    \/ ThChangeKey(1)
    \/ ThRpl(1)
    \/ ThModifyLive(1)
    \/ ThResume(1)
    \/ ThReply(1)
    \/ \E cb \in Callbacks : CbPlace(cb)
    \/ \E cb \in Callbacks : CbSetReq(cb)
    \/ \E cb \in Callbacks : CbSchedule(cb)
    \/ ReplySent

SpecPause == Init /\ [][NextPause]_vars

\* one job and two reserving clients, with and without a scheduler group,
\* while "shutdown" stops the server and the queue is destroyed
NextClosed ==
    \/ \E cr \in AddRequests({1}, {1}) :
          ~stopped /\ cr.dest = "ready" /\ ~cr.ignoreComplete /\ Add(cr)
    \/ \E c \in Clients, group \in {NoGroup, 1} : ReserveEnter(c, group)
    \/ \E c \in Clients : ReserveAttempt(c)
    \/ \E c \in Clients : sstate.q /\ ReservePoll(c)
    \/ \E c \in Clients : ReservePollClosed(c)
    \/ \E c \in Clients : ReserveFailed(c)
    \/ \E c \in Clients : ReserveTimeout(c)
    \/ \E c \in Clients : ReserveFinish(c)
    \/ \E c \in Clients : ~stopped /\ getij(c, 1) = "" /\ JRelease(c, 1, "exit1")
    \/ ~stopped /\ Stop
    \/ \E cb \in Callbacks : CbPlace(cb)
    \/ \E cb \in Callbacks : CbSetReq(cb)
    \/ \E cb \in Callbacks : CbSchedule(cb)
    \/ ReplySent

SpecClosed == Init /\ [][NextClosed]_vars

\* one job that client 1 reserves, starts and touches, that may be lost by
\* its TTR and reserved again, and for which kill is called
NextKill ==
    \/ \E cr \in AddRequests({1}, {1}) :
          cr.dest = "ready" /\ ~cr.ignoreComplete /\ Add(cr)
    \/ ReserveFirst(1, NoGroup, FALSE, FALSE)
    \/ ReserveFinish(1)
    \/ getij(1, 1) = "" /\ JStart(1, 1, TRUE)
    \/ \E c \in Clients : JTouch(c, 1)
    \/ \E key \in {0, 1} : JKill(key)
    \/ KillRunners
    \/ getij(1, 1) = "" /\ JRelease(1, 1, "exit1")
    \/ DelayExpired(1)
    \/ TTRExpiredLost(1)
    \/ \E cb \in Callbacks : CbPlace(cb)
    \/ \E cb \in Callbacks : CbSetReq(cb)
    \/ \E cb \in Callbacks : CbSchedule(cb)
    \/ ReplySent

SpecKill == Init /\ [][NextKill]_vars

\* one job that goes through every sub-queue, started or not, lost or not,
\* and whose snapshot is asked for with "getbc"
NextSnapshot ==
    \/ \E cr \in AddRequests({1}, {1}) : ~cr.ignoreComplete /\ Add(cr)
    \/ ReserveFirst(1, NoGroup, FALSE, FALSE)
    \/ ReserveFinish(1)
    \/ getij(1, 1) = "" /\ JStart(1, 1, TRUE)
    \/ getij(1, 1) = "" /\ JRelease(1, 1, "exit1")
    \/ getij(1, 1) = "" /\ JBury(1, 1, "exit1")
    \/ JKick(1)
    \/ DelayExpired(1)
    \/ TTRExpiredLost(1)
    \/ \E older \in BOOLEAN : GetBc(1, older)
    \/ \E cb \in Callbacks : CbPlace(cb)
    \/ \E cb \in Callbacks : CbSetReq(cb)
    \/ \E cb \in Callbacks : CbSchedule(cb)
    \/ ReplySent

SpecSnapshot == Init /\ [][NextSnapshot]_vars

\* jobs are added while two clients reserve them, poll when nothing is
\* ready and release what they got, and the server is set to drain and
\* resumed
NextDrain ==
    \/ \E cr \in AddRequests(Keys, {1}) :
          cr.dest = "ready" /\ ~cr.ignoreComplete /\ Add(cr)
    \/ \E c \in Clients, group \in {NoGroup, 1} :
          ReserveFirst(c, group, FALSE, FALSE)
    \/ \E c \in Clients : ReservePoll(c)
    \/ \E c \in Clients : ReserveTimeout(c)
    \/ \E c \in Clients : ReserveFinish(c)
    \/ \E c \in Clients, key \in Keys :
          getij(c, key) = "" /\ JRelease(c, key, "exit1")
    \/ ~sstate.drain /\ Drain
    \/ sstate.drain /\ Resume
    \/ \E cb \in Callbacks : CbPlace(cb)
    \/ \E cb \in Callbacks : CbSetReq(cb)
    \/ \E cb \in Callbacks : CbSchedule(cb)
    \/ ReplySent

SpecDrain == Init /\ [][NextDrain]_vars

\* every key, one requirement, one client: jobs are added, reserved, started,
\* archived, buried, kicked, deleted (by the jdel of either handler) and
\* given another key by jmod
NextRpl ==
    \/ \E cr \in AddRequests(Keys, {1}) :
          cr.dest = "ready" /\ ~cr.ignoreComplete /\ Add(cr)
    \/ q.ready # {} /\ ReserveFirst(1, NoGroup, FALSE, FALSE)
    \/ ReserveFinish(1)
    \/ \E key \in Keys : getij(1, key) = "" /\ JStart(1, key, TRUE)
    \/ \E key \in Keys : getij(1, key) = "" /\ JArchive(1, key, "exit0", TRUE)
    \/ \E key \in Keys : getij(1, key) = "" /\ JBury(1, key, "exit1")
    \/ \E key \in Keys : key \in QAll(q) /\ JDel(key)
    \/ \E key \in Keys : key \in QAll(q) /\ JDelBuried(key)
    \/ \E key \in Keys \cup {0}, new \in Keys : JMod(key, new)
    \/ \E cb \in Callbacks : CbPlace(cb)
    \/ \E cb \in Callbacks : CbSetReq(cb)
    \/ \E cb \in Callbacks : CbSchedule(cb)
    \/ \E g \in Groups : AsyncDecrement(g)
    \/ ReplySent

SpecRpl == Init /\ [][NextRpl]_vars

\* C11: the callback asks Sched.Place for a group, and assigns it, only for a
\* job that has no schedulerGroup yet: an iteration of its loop over
\* allitemdata never finds the job at hand with a group already set.
C11_PlaceOnlyUnassigned ==
    [][\A cb \in Callbacks :
          (cbs[cb].pc = "place" /\ cbs'[cb] # cbs[cb]) =>
              LET j == cbs[cb].data[1][1]
              IN jobs[j].Key # 0 => jobs[j].schedulerGroup = NoGroup]_vars

handlerVars == <<q, jobs, rpl, sgroupcounts, sgtr, sched, limiter, db, rsv, cbs,
                 pendingDec, stay, sstate>>

\* C13: a request of any method but ping that comes without the right token
\* is answered ErrPermissionDenied and changes nothing, whatever the state of
\* the server (the token is looked at before up and drain are); a ping
\* without the token is served while the server is up or draining.
C13_WrongTokenRefused ==
    [][\A cr \in {x \in GateRequests : ~x.tokenOk} :
          handleRequest(cr) =>
             IF cr.Method # "ping"
             THEN /\ reply' = Reply(cr.Method, ErrPermissionDenied, 0, 0)
                  /\ UNCHANGED handlerVars
             ELSE (sstate.q /\ (sstate.up \/ sstate.drain)) =>
                      reply' = Reply("ping", "", 0, 0)]_vars

\* a request without the token was refused by a server that had been stopped
C13_Witness ==
    /\ reply.err = ErrPermissionDenied
    /\ reply.method \in {"jstart", "jarchive", "jdel"}
    /\ ~sstate.up /\ ~sstate.drain
    /\ q.run # {}

\* C14: a request with the right token, ping included, that arrives when the
\* queue has been destroyed or the server is neither up nor draining is
\* answered ErrClosedStop, and no handler runs.
C14_ClosedStop ==
    [][\A cr \in {x \in GateRequests : x.tokenOk} :
          (handleRequest(cr) /\ (~sstate.q \/ (~sstate.up /\ ~sstate.drain))) =>
              /\ reply' = Reply(cr.Method, ErrClosedStop, 0, 0)
              /\ UNCHANGED handlerVars]_vars

\* a stopped server that still has its queue refused a request about a
\* running job
C14_Witness ==
    /\ reply.err = ErrClosedStop
    /\ reply.method \in {"ping", "jarchive", "reserve"}
    /\ sstate.q /\ ~sstate.up /\ ~sstate.drain
    /\ q.run # {}

\* C15: while the server drains, a reserve request returns no job and no
\* error and moves no item, and jstart, jtouch, jarchive, jrelease and jbury
\* about a running job do what their handlers do when the server is up,
\* whether or not up is still set.
C15_Drain ==
    [][\A cr \in {x \in GateRequests : x.tokenOk} :
          (handleRequest(cr) /\ sstate.drain /\ sstate.q) =>
              /\ cr.Method = "reserve" =>
                    /\ reply' = Reply("reserve", "", 0, 0)
                    /\ UNCHANGED handlerVars
              /\ cr.Job \in q.run =>
                    /\ cr.Method = "jstart" =>
                          JStart(cr.ClientID, cr.Job, cr.argsOk)
                    /\ cr.Method = "jtouch" => JTouch(cr.ClientID, cr.Job)
                    /\ cr.Method = "jarchive" =>
                          JArchive(cr.ClientID, cr.Job, cr.JobEndState, cr.dbOk)
                    /\ cr.Method = "jrelease" =>
                          JRelease(cr.ClientID, cr.Job, cr.JobEndState)
                    /\ cr.Method = "jbury" =>
                          JBury(cr.ClientID, cr.Job, cr.JobEndState)]_vars

\* a job reserved before the drain was archived by a server that drains and
\* is no longer up
C15_Witness ==
    /\ sstate.drain /\ ~sstate.up
    /\ reply = Reply("jarchive", "", 0, 0)
    /\ db.complete # {}

\* C16: an "add" that is answered with Added has written the new job to the
\* live bucket by the time of the reply; an "add" whose DB write fails is
\* answered ErrDBError and puts nothing in the queue, in rpl or in the DB.
C16_PersistBeforeAck ==
    [][\A cr \in AddRequests({1}, {1}) \cup BadAddRequests :
          Add(cr) =>
              /\ reply'.n >= 1 =>
                    (reply'.err = "" /\ cr.key \in db'.live /\ cr.key \in QAll(q'))
              /\ cr.kind = "dberr" =>
                    /\ reply' = Reply("add", ErrDBError, 0, 0)
                    /\ UNCHANGED <<q, jobs, rpl, db>>]_vars

\* the reply that acknowledges a new job, which is in the queue and has its
\* live record
C16_Witness ==
    /\ reply = Reply("add", "", 1, 0)
    /\ \E j \in Keys : j \in QAll(q) /\ j \in db.live /\ j \in rpl[jobs[j].RepGroup]

\* C17: an "add" of a job whose key is in the queue is answered with Added 0
\* and Existed 1 and leaves the item and the job as they are (sub-queue,
\* UntilBuried, ReservedBy, the exec fields); an "add" of a job whose key is
\* not in the queue, and is not passed over as complete, is answered with
\* Added 1 and Existed 0.
C17_DuplicateAdd ==
    [][\A cr \in AddRequests({1}, {1}) :
          Add(cr) =>
              /\ cr.key \in QAll(q) =>
                    /\ reply'.err = "" /\ reply'.n = 0 /\ reply'.existed = 1
                    /\ UNCHANGED <<q, jobs>>
              /\ (cr.key \notin QAll(q) /\ ~(cr.ignoreComplete /\ cr.key \in db.complete)) =>
                    /\ reply'.err = "" /\ reply'.n = 1 /\ reply'.existed = 0
                    /\ cr.key \in QAll(q')]_vars

\* the reply to the second "add" of a job that a client holds reserved
C17_Witness ==
    /\ reply.method = "add" /\ reply.n = 0 /\ reply.existed = 1
    /\ \E j \in q.run : jobs[j].ReservedBy # NoClient /\ jobs[j].StartTime = 1

\* C18: no job is lost or kept twice: every job in the queue has its record
\* in the live bucket, and a key is never in the live bucket and in the
\* complete bucket at once.
C18_OneBucket ==
    \A key \in Keys :
        /\ key \in QAll(q) => key \in db.live
        /\ ~(key \in db.live /\ key \in db.complete)

\* C19: a "jarchive" that is answered without error has removed the item
\* from the queue, moved the record from the live to the complete bucket,
\* taken the key out of rpl under the job's RepGroup, and started one
\* decrement of the count of the job's scheduler group; a decrement takes
\* one off the count it finds, and decrements do not wait forever: again and
\* again none is waiting (which only their running brings about), or again
\* and again one runs.
C19_Archived ==
    /\ [][\A es \in EndStates, dbOk \in BOOLEAN :
             (JArchive(1, 1, es, dbOk) /\ reply'.err = "") =>
                 /\ 1 \notin QAll(q')
                 /\ 1 \notin db'.live /\ 1 \in db'.complete
                 /\ 1 \notin rpl'[jobs[1].RepGroup]
                 /\ \A g \in Groups :
                       pendingDec'[g] = pendingDec[g] +
                           (IF jobs[1].schedulerGroup = g THEN 1 ELSE 0)]_vars
    /\ [][\A g \in Groups :
             (AsyncDecrement(g) /\ g \in DOMAIN sgroupcounts) =>
                 MapGet(sgroupcounts', g, 0) = sgroupcounts[g] - 1]_vars
    /\ \A g \in Groups :
          \/ []<>(pendingDec[g] = 0)
          \/ []<><<AsyncDecrement(g)>>_vars

\* the reply to the "jarchive" of a job that had been given its group, with
\* the decrement of the group's count still to run
C19_Witness ==
    /\ reply = Reply("jarchive", "", 0, 0)
    /\ 1 \in db.complete /\ 1 \notin db.live /\ 1 \notin QAll(q)
    /\ \E g \in Groups : pendingDec[g] = 1 /\ MapGet(sgroupcounts, g, 0) = 1

\* C20: a "jarchive" that is turned down with ErrBadRequest or ErrBadJob
\* leaves the job in its sub-queue with its fields, and the limit groups, rpl,
\* sgroupcounts and the DB as they were.
C20_RejectedArchiveChangesNothing ==
    [][\A c \in Clients, es \in EndStates, dbOk \in BOOLEAN :
          (JArchive(c, 1, es, dbOk) /\ reply'.err \in {ErrBadRequest, ErrBadJob}) =>
              UNCHANGED <<q, jobs, limiter, rpl, sgroupcounts, db>>]_vars

\* C21: a "jarchive" whose archiveJob fails is answered ErrDBError and
\* leaves the item in run, rpl, sgroupcounts and the DB as they were, the
\* job's State what it was before the request, and the server up.
C21_FailedArchiveAborts ==
    [][\A es \in EndStates :
          (JArchive(1, 1, es, FALSE) /\ reply'.err = ErrDBError) =>
              /\ 1 \in q'.run
              /\ UNCHANGED <<q, rpl, sgroupcounts, db, sstate>>
              /\ jobs'[1].State = jobs[1].State]_vars

\* the exit that a "jrelease" with the end state es goes by is a failed one
C22_Failed(j, es) ==
    \/ es = "exit1"
    \/ es = "none" /\ jobs[j].Exited /\ jobs[j].Exitcode # 0

C25_Frame == <<q, jobs, limiter, rpl, db, sgroupcounts, sgtr, sched, cbs, sstate>>

\* C25: a reserve with a timeout that finds nothing eligible starts to poll
\* without a reply and without changing the queue, the jobs, the limiter or
\* the coordinator; the timeout ends the polling with one reply that has no
\* job and no error, and again changes nothing else; and a polling reserve
\* does come to its end.
C25_TimedOutReserve ==
    /\ [][\A group \in {NoGroup, 1} :
             (ReserveFirst(1, group, FALSE, FALSE) /\ Eligible(<<group>>) = {}
                  /\ (group # NoGroup \/ q.ready = {})) =>
                 /\ rsv'[1].pc = "poll"
                 /\ reply' = NoReply
                 /\ UNCHANGED C25_Frame]_vars
    /\ [][ReserveTimeout(1) =>
             /\ rsv[1].pc = "poll" /\ rsv'[1] = IdleRsv
             /\ reply = NoReply /\ reply' = Reply("reserve", "", 0, 0)
             /\ UNCHANGED C25_Frame]_vars
    /\ [][(rsv[1].pc = "poll" /\ reply'.method = "reserve") =>
             rsv'[1].pc # "poll"]_vars
    /\ (rsv[1].pc = "poll") ~> (rsv[1].pc # "poll")

\* the reply to a reserve that polled an empty queue until its timeout
C25_Witness ==
    /\ reply = Reply("reserve", "", 0, 0)
    /\ rsv[1] = IdleRsv
    /\ QAll(q) = {}
    /\ db = [live |-> {}, complete |-> {}]

\* the keys of the jobs of RepGroup rg that are in the queue: neither complete
\* nor removed
C26_KeysOf(rg) == {j \in QAll(q) : jobs[j].RepGroup = rg}

\* C26: in every quiescent state rpl[rg] is exactly the set of the keys of
\* the jobs of RepGroup rg that are neither complete nor removed: add
\* inserts, jarchive and jdel remove, jmod replaces the old key by the new
\* one, and no stale key is left behind.
C26_RplIsIndex ==
    Quiescent => \A rg \in RepGroups : rpl[rg] = C26_KeysOf(rg)

\* goroutine w has made some of the writes of rpl of its request, and not all
C27_Partial(w) ==
    /\ th[w].n > 0
    /\ \E i \in 1..Len(th[w].prog) : th[w].prog[i].k \in {"rplInsert", "rplDelete"}

\* C27: rpl.Lock is held across all the per-job writes of rpl of one add or
\* jmod, so a getbr, which reads under rpl.RLock, sees none or all of the
\* writes of a request: while a getbr holds the read lock no add or jmod has
\* made some of its writes and not the others.
C27_BatchUnderLock ==
    \A r \in Clients, w \in Clients :
        (th[r].op = "getbr" /\ "rpl" \in HeldBy(r)) => ~C27_Partial(w)

\* C27 happens: a getbr has read the index under the read lock after one add
\* of two jobs, while another add of two jobs waits for the write lock
C27_Witness ==
    \E r \in Clients, w \in Clients :
        /\ th[r].op = "getbr" /\ "rpl" \in HeldBy(r) /\ th[r].seen = {1, 2}
        /\ th[w].op = "add" /\ th[w].n = 0
        /\ th[w].prog[1].k = "lock" /\ Len(th[w].prog) = 5

\* the place of a lock in the locking discipline, outer to inner
C28_Rank(lock) ==
    CASE lock = "ssmutex" -> 1
      [] lock = "queue" -> 2
      [] lock = "rpl" -> 3
      [] lock = "sgcmutex" -> 4
      [] lock = "job" -> 5
      [] lock = "leaf" -> 6

\* C28: the locks a handler holds were taken in the order ssmutex, queue
\* lock, rpl lock, sgcmutex, Job lock, leaf locks: no handler holds an inner
\* lock that it took before an outer one.
C28_LockOrder ==
    \A c \in Clients : \A i \in 1..Len(th[c].held), j \in 1..Len(th[c].held) :
        i < j => C28_Rank(th[c].held[i][1]) < C28_Rank(th[c].held[j][1])

\* the goroutines of D all wait for a lock that another goroutine of D holds
C28_Stuck(D) ==
    \A c \in D :
        /\ th[c].prog # <<>> /\ th[c].prog[1].k = "lock"
        /\ \E o \in D \ {c} :
              IF th[c].prog[1].b THEN HoldsExclusive(o, th[c].prog[1].a)
              ELSE th[c].prog[1].a \in HeldBy(o)

\* the consequence C28 draws: no handlers wait for each other's locks
C28_NoDeadlock == \A D \in SUBSET Clients : D # {} => ~C28_Stuck(D)

\* a request is received and its handling begins
C29_Request ==
    \/ \E cr \in AddRequests({1}, {1}) : Add(cr)
    \/ ReserveFirst(1, NoGroup, FALSE, FALSE)
    \/ JBury(1, 1, "exit1")
    \/ JDel(1)

\* C29 as it is worded: once Stop has put its value on the stop channel of
\* a server that is up, the receiver eventually takes that stop, and a caller
\* that was blocked in Block returns with ErrClosedStop.
C29_StopIsTaken ==
    /\ (srv.stop = 1) ~> (srv.taken = "stop")
    /\ srv.atStop ~> (srv.block = "returned" /\ srv.blockErr = ErrClosedStop)

\* C29: after Stop is called on a server that is up, and after a SIGINT or
\* SIGTERM, the receiver eventually shuts down: it takes the stop or a pending
\* signal, whichever its select picks, shutdown runs (the socket and the DB
\* are closed, the queues destroyed), done is sent on exactly once, with
\* ErrClosedStop, ErrClosedInt or ErrClosedTerm for what was taken, no request
\* is received afterwards, and a caller blocked in Block when Stop was
\* called returns, with that error.
C29_Shutdown ==
    /\ [](srv.sent <= 1 /\ (srv.pc = "returned" <=> srv.sent = 1))
    /\ [](srv.pc = "returned" =>
             ~srv.sock /\ srv.closes >= 1 /\ ~sstate.q /\ srv.taken # "")
    /\ [](srv.pc = "loop" => srv.sock /\ srv.taken = "")
    /\ [][srv.pc = "returned" => ~C29_Request]_vars
    /\ [](srv.done # <<>> => srv.done = <<ClosedError(srv.taken)>>)
    /\ [](srv.blockErr # "" => srv.blockErr = ClosedError(srv.taken))
    /\ [](srv.stopErr[1] # "" => srv.stopErr[1] = ClosedError(srv.taken))
    /\ [](srv.taken = "stop" => ClosedError(srv.taken) = ErrClosedStop)
    /\ (srv.stop = 1) ~> (srv.pc = "returned")
    /\ (srv.sigs # <<>>) ~> (srv.pc = "returned")
    /\ srv.atStop ~> (srv.block = "returned")

\* C29 happens: Stop was called while a caller was blocked in Block, the
\* receiver took the stop, and Block has returned with ErrClosedStop
C29_Witness ==
    /\ srv.atStop /\ srv.taken = "stop" /\ srv.pc = "returned" /\ ~srv.sock
    /\ srv.block = "returned" /\ srv.blockErr = ErrClosedStop
    /\ srv.stopper[1] = "returned"

\* the jobs tagged with the limit group that are in run
C30_Running == {j \in q.run : jobs[j].Req = LimitedGroup}

\* C30: the limit group is a semaphore over reservations. The jobs tagged
\* with it that are in run at once are never more than its limit, however
\* they were reserved, and every increment made for a reservation is matched
\* by one decrement when the job exits run: the limiter counts the jobs in
\* run that have noted an increment.
C30_LimitIsSemaphore ==
    /\ Cardinality(C30_Running) <= LimitOfGroup
    /\ limiter = Cardinality({j \in Keys : jobs[j].incremented})
    /\ \A j \in Keys : jobs[j].incremented => j \in q.run

\* the second half of C30 alone
C30_IncrementsMatched ==
    /\ limiter = Cardinality({j \in Keys : jobs[j].incremented})
    /\ \A j \in Keys : jobs[j].incremented => j \in q.run
    /\ limiter <= LimitOfGroup

\* C31: while a "jmod" is between its Pause and its Resume, none of the jobs
\* it has collected is in run (no reserve, one already polling included,
\* returns the job while it is being rewritten), and when the reply of
\* "jmod" is sent the server has been resumed
C31_Paused(c) ==
    th[c].op = "jmod" /\ \E i \in 1..Len(th[c].prog) : th[c].prog[i].k = "resume"

C31_Collected(c) ==
    UNION {{th[c].prog[i].a, th[c].prog[i].b} :
             i \in {n \in 1..Len(th[c].prog) : th[c].prog[n].k = "modifyLive"}}

C31_Resumed == reply.method = "jmod" => sstate.up /\ ~sstate.drain

C31_JModNotInRun ==
    /\ \A c \in Clients : C31_Paused(c) => C31_Collected(c) \cap q.run = {}
    /\ C31_Resumed

\* C32: whenever the queue's Reserve fails because the queue is closed, on
\* the first attempt or on a polling retry, the reply of the reserve carries
\* ErrQueueClosed; and ErrNothingReady is never sent to a client
C32_ClosedOnPoll ==
    [][\A c \in Clients :
          rsv[c].pc = "closedPoll" /\ rsv'[c].pc = "idle" =>
             reply'.err = ErrQueueClosed]_vars

C32_NothingReadyKept == reply.err # ErrNothingReady

C32_ClosedIsSurfaced ==
    [][/\ \A c \in Clients :
            rsv[c].pc \in {"closedFirst", "closedPoll"} /\ rsv'[c].pc = "idle" =>
               reply'.err = ErrQueueClosed
       /\ reply'.err # ErrNothingReady]_vars

\* C33: a polling reserve looks for a job where its first attempt did: when
\* a job that the first attempt would have returned is ready, the next tick
\* of the poller returns a job; for a reserve sent without a scheduler group
\* that is any ready job
C33_FirstWouldGet(c) ==
    Eligible(IF rsv[c].group # NoGroup THEN <<rsv[c].group>> ELSE <<>>) # {}

C33_GroupedPollsAsFirst ==
    \A c \in Clients :
        (reply = NoReply /\ rsv[c].pc = "poll" /\ rsv[c].group # NoGroup
            /\ C33_FirstWouldGet(c)) => ENABLED ReservePoll(c)

C33_PollsAsFirst ==
    \A c \in Clients :
        (reply = NoReply /\ rsv[c].pc = "poll" /\ C33_FirstWouldGet(c)) =>
            ENABLED ReservePoll(c)

\* C34: a kill called for a job in run stays called for as long as the job
\* stays in run (a jstart does not take it back), and a jtouch of the owner
\* answers by it: with killCalled or the server-wide kill flag set it replies
\* KillCalled and does not re-arm the TTR; with neither set it re-arms the
\* TTR and a job that was Lost is no longer Lost
C34_Touch ==
    reply = NoReply /\ reply'.method = "jtouch" /\ reply'.err = ""

C34_TouchByFlags ==
    [][C34_Touch =>
         IF jobs[1].killCalled \/ sstate.killRunners
         THEN reply'.KillCalled /\ ~reply'.touched /\ jobs' = jobs
         ELSE ~reply'.KillCalled /\ reply'.touched /\ ~jobs'[1].Lost]_vars

C34_KillCalledKept ==
    [][/\ (jobs[1].killCalled /\ 1 \in q.run /\ 1 \in q'.run) => jobs'[1].killCalled
       /\ C34_Touch =>
            IF jobs[1].killCalled \/ sstate.killRunners
            THEN reply'.KillCalled /\ ~reply'.touched /\ jobs' = jobs
            ELSE ~reply'.KillCalled /\ reply'.touched /\ ~jobs'[1].Lost]_vars

\* C35: the State of the snapshot of a job is the one of the table: delay ->
\* delayed, ready -> ready, bury -> buried, dependent -> dependent, run ->
\* reserved, running when the item is in run and StartTime is set, lost when
\* the item is in run and the job is Lost; Lost and StartTime change nothing
\* for a job outside run
C35_Table(key) ==
    LET sub == ItemState(ItemOf(key))
        job == jobs[ItemOf(key)]
    IN CASE sub = "delay" -> "delayed"
         [] sub = "ready" -> "ready"
         [] sub = "bury" -> "buried"
         [] sub = "dependent" -> "dependent"
         [] sub = "run" -> IF job.Lost THEN "lost"
                           ELSE IF job.StartTime # 0 THEN "running"
                           ELSE "reserved"

C35_LaterSnapshot ==
    [][\A key \in Keys :
          (GetBc(key, FALSE) /\ reply'.n = 1) => reply'.State = C35_Table(key)]_vars

C35_SnapshotState ==
    [][\A key \in Keys, older \in BOOLEAN :
          (GetBc(key, older) /\ reply'.n = 1) => reply'.State = C35_Table(key)]_vars

\* C36: a jstart, jarchive, jrelease or jbury of client a takes effect on a
\* job only when a is the client of the job's most recent successful reserve:
\* the one for whom the queue has moved the item into run, from that move on
C36_Holder(key) ==
    IF \E c \in Clients : rsv[c].pc = "got" /\ rsv[c].item = key
    THEN CHOOSE c \in Clients : rsv[c].pc = "got" /\ rsv[c].item = key
    ELSE jobs[key].ReservedBy

C36_Finish(a, key) ==
    \/ \E argsOk \in BOOLEAN : JStart(a, key, argsOk)
    \/ \E es \in EndStates, dbOk \in BOOLEAN : JArchive(a, key, es, dbOk)
    \/ \E es \in EndStates : JRelease(a, key, es)
    \/ \E es \in EndStates : JBury(a, key, es)

C36_TakesEffect == reply'.err = "" \/ jobs' # jobs \/ q' # q

C36_HolderAfterReply ==
    [][\A a \in Clients, key \in Keys :
          (C36_Finish(a, key) /\ C36_TakesEffect
              /\ \A c \in Clients : rsv[c].pc # "got") =>
             (key \in q.run /\ C36_Holder(key) = a)]_vars

C36_OnlyHolderFinishes ==
    [][\A a \in Clients, key \in Keys :
          (C36_Finish(a, key) /\ C36_TakesEffect) =>
             (key \in q.run /\ C36_Holder(key) = a)]_vars

\* C37: while the drain flag is set no item moves from ready to run, neither
\* for a reserve that arrives after the flag was set nor for one that was
\* already polling when it was set
C37_NewReserveKept ==
    [][\A c \in Clients, group \in {NoGroup, 1} :
          (sstate.drain /\ ReserveFirst(c, group, FALSE, FALSE)) => q' = q]_vars

C37_NoReserveInDrain ==
    [][sstate.drain => q.ready \cap q'.run = {}]_vars

\* C38: Stop may be called more than once and by concurrent callers, with or
\* without a caller of Block: every call of Stop returns (no caller waits
\* for ever on the stop or the done channel), shutdown runs at most once, and
\* after a Stop has returned up is false, or becomes false when Block returns
C38_ShutdownOnce == srv.sent <= 1 /\ (srv.sent = 1 <=> srv.pc = "returned")

C38_StopSafe ==
    /\ \A c \in Clients : (srv.stopper[c] # "none") ~> (srv.stopper[c] = "returned")
    /\ \A c \in Clients : (srv.stopper[c] = "returned") ~> ~sstate.up
    /\ [](srv.sent <= 1)

====
